---- MODULE Spec2Model ----
(***************************************************************************)
(* A model of ImGui.Forms: the Rectangle geometry value type               *)
(* (src/src/Core/Rectangle.cpp, src/include/ImGuiForms/Core/Rectangle.h)   *)
(* the size-policy resolution of the component tree                        *)
(* (Component.h, Component.cpp, Panel.cpp, Label.cpp, Size.h), and the     *)
(* life of components under the Framework statics: construction,           *)
(* destruction, Update, SetTabInactive and the frame functions             *)
(* (Component.cpp, Panel.cpp).                                             *)
(*                                                                         *)
(* Rectangle operations are pure functions of int fields; several of them  *)
(* compute through IEEE-754 binary32 (`float`), which is modelled here bit *)
(* for bit (24-bit significand, round to nearest even) so that a           *)
(* truncation after a float division is the truncation the program makes.  *)
(***************************************************************************)
EXTENDS Integers, Sequences, FiniteSets, TLC

(***************************************************************************)
(* Bounds of the model.                                                    *)
(***************************************************************************)
\* Rectangle positions range over 0..MaxPos.
MaxPos == 2
\* Rectangle extents range over -1..MaxExt (negative and zero: empty).
MaxExt == 2
\* FitInside: extents of the rectangle and of the container, -1..MaxFit.
MaxFit == 8
\* Subdivide: extents of the source rectangle, -1..MaxAxis.
MaxAxis == 6
\* Subdivide: ratio lists of length 0..MaxRatios over -1..MaxRatio.
MaxRatios == 3
MaxRatio == 2
\* Layout: component chains of 1..MaxDepth components.
MaxDepth == 2
\* rows and columns of a grid, items of an arrangement
MaxGrid == 3
\* Components: objects constructed in a run.
MaxComponents == 3
\* Frames: Update is called while the frame's counters are below MaxUpdates.
MaxUpdates == 2

(***************************************************************************)
(* binary32 arithmetic.  A float is [s, m, e]: value s * m * 2^e with      *)
(* s in {1,-1} and either m = 0 (zero, e = 0) or 2^23 <= m < 2^24.         *)
(* Exponent range and subnormals are left out: every value the model       *)
(* computes lies well inside the normal range.                             *)
(***************************************************************************)
TwoP12 == 2 ^ 12
TwoP22 == 2 ^ 22
TwoP23 == 2 ^ 23
TwoP24 == 2 ^ 24

Abs(n) == IF n < 0 THEN -n ELSE n
Min(a, b) == IF a < b THEN a ELSE b
Max(a, b) == IF a > b THEN a ELSE b

FZero == [s |-> 1, m |-> 0, e |-> 0]

RECURSIVE NormUp(_, _)
\* shift a non-zero significand left until its top bit is bit 23
NormUp(m, e) == IF m >= TwoP23 THEN <<m, e>> ELSE NormUp(2 * m, e - 1)

\* static_cast<float>(n) for |n| < 2^24: exact
ToFloat(n) ==
    IF n = 0 THEN FZero
    ELSE LET p == NormUp(Abs(n), 0)
         IN  [s |-> IF n < 0 THEN -1 ELSE 1, m |-> p[1], e |-> p[2]]

\* round to nearest, ties to even: q is the 24-bit significand, guard the next
\* bit below it, sticky whether anything non-zero lies below the guard bit
FRound(s, q, e, guard, sticky) ==
    LET up == guard /\ (sticky \/ q % 2 = 1)
        q1 == IF up THEN q + 1 ELSE q
    IN  IF q1 = TwoP24 THEN [s |-> s, m |-> TwoP23, e |-> e + 1]
        ELSE [s |-> s, m |-> q1, e |-> e]

RECURSIVE LongDiv(_, _, _, _)
\* <<floor(num * 2^bits / den), remainder>> given q = floor(num/den), r = num % den
LongDiv(q, r, den, bits) ==
    IF bits = 0 THEN <<q, r>>
    ELSE IF 2 * r >= den THEN LongDiv(2 * q + 1, 2 * r - den, den, bits - 1)
         ELSE LongDiv(2 * q, 2 * r, den, bits - 1)

\* a / b in binary32 (b # 0)
FDiv(a, b) ==
    IF a.m = 0 THEN FZero
    ELSE LET s    == a.s * b.s
             bits == IF a.m >= b.m THEN 24 ELSE 25
             d    == LongDiv(a.m \div b.m, a.m % b.m, b.m, bits)
             \* d[1] has 25 bits: 24 of significand and the guard bit
         IN  FRound(s, d[1] \div 2, a.e - b.e - bits + 1, d[1] % 2 = 1, d[2] # 0)

\* a * b in binary32; the 48-bit product is formed in 12-bit limbs
FMul(a, b) ==
    IF a.m = 0 \/ b.m = 0 THEN FZero
    ELSE LET s   == a.s * b.s
             a1  == a.m \div TwoP12
             a0  == a.m % TwoP12
             b1  == b.m \div TwoP12
             b0  == b.m % TwoP12
             mid == a1 * b0 + a0 * b1
             lt  == (mid % TwoP12) * TwoP12 + a0 * b0
             H   == a1 * b1 + (mid \div TwoP12) + (lt \div TwoP24)
             L   == lt % TwoP24
         IN  IF H >= TwoP23
             THEN FRound(s, H, a.e + b.e + 24, L >= TwoP23, L % TwoP23 # 0)
             ELSE FRound(s, 2 * H + (L \div TwoP23), a.e + b.e + 23,
                         (L % TwoP23) >= TwoP22, L % TwoP22 # 0)

RECURSIVE ShiftFor(_, _)
\* the number of low bits to drop from n to leave a 24-bit significand
ShiftFor(n, k) == IF n \div (2 ^ k) < TwoP24 THEN k ELSE ShiftFor(n, k + 1)

\* the float nearest s * n * 2^e for an integer 0 <= n < 2^30
FNormalize(s, n, e) ==
    IF n = 0 THEN FZero
    ELSE IF n < TwoP24
    THEN LET p == NormUp(n, e) IN [s |-> s, m |-> p[1], e |-> p[2]]
    ELSE LET k    == ShiftFor(n, 1)
             half == 2 ^ (k - 1)
         IN  FRound(s, n \div (2 * half), e + k,
                    (n \div half) % 2 = 1, n % half # 0)

\* a + b in binary32: the operand of larger magnitude is extended by three
\* bits (guard, round, sticky), the other is aligned to it with the bits
\* shifted out collected in the sticky bit
FAdd(a, b) ==
    IF a.m = 0 THEN b
    ELSE IF b.m = 0 THEN a
    ELSE LET aBig == a.e > b.e \/ (a.e = b.e /\ a.m >= b.m)
             hi   == IF aBig THEN a ELSE b
             lo   == IF aBig THEN b ELSE a
             d    == hi.e - lo.e
             H    == hi.m * 8
             L    == IF d <= 3 THEN lo.m * (2 ^ (3 - d))
                     ELSE IF d > 27 THEN 1
                     ELSE LET q == lo.m \div (2 ^ (d - 3))
                          IN  IF lo.m % (2 ^ (d - 3)) # 0 /\ q % 2 = 0
                              THEN q + 1 ELSE q
         IN  IF hi.s = lo.s THEN FNormalize(hi.s, H + L, hi.e - 3)
             ELSE FNormalize(hi.s, H - L, hi.e - 3)

FNeg(a) == IF a.m = 0 THEN a ELSE [a EXCEPT !.s = -a.s]

\* a - b in binary32
FSub(a, b) == FAdd(a, FNeg(b))

\* a < b in binary32
FLess(a, b) ==
    LET mag(u, v) == \* |u| < |v|
            IF u.m = 0 THEN v.m # 0
            ELSE IF v.m = 0 THEN FALSE
            ELSE u.e < v.e \/ (u.e = v.e /\ u.m < v.m)
    IN  IF a.m = 0 /\ b.m = 0 THEN FALSE
        ELSE IF a.s # b.s \/ a.m = 0 \/ b.m = 0
             THEN (IF a.m = 0 THEN b.s = 1 ELSE IF b.m = 0 THEN a.s = -1 ELSE a.s < b.s)
             ELSE IF a.s = 1 THEN mag(a, b) ELSE mag(b, a)

\* the integer part of |a| and whether a fraction was dropped
FMagnitude(a) ==
    IF a.m = 0 THEN <<0, FALSE>>
    ELSE IF a.e >= 0 THEN <<a.m * (2 ^ a.e), FALSE>>
    ELSE IF a.e <= -24 THEN <<0, TRUE>>
    ELSE <<a.m \div (2 ^ (-a.e)), a.m % (2 ^ (-a.e)) # 0>>

\* static_cast<int>(a): truncation toward zero
FTrunc(a) == a.s * FMagnitude(a)[1]

\* static_cast<int>(std::floor(a))
FFloor(a) ==
    LET p == FMagnitude(a)
    IN  IF a.s = 1 THEN p[1] ELSE IF p[2] THEN -(p[1] + 1) ELSE -p[1]


(***************************************************************************)
(* Rectangle (Rectangle.h, Rectangle.cpp): a value {x, y, width, height}   *)
(* of int fields.                                                          *)
(***************************************************************************)
Rectangle(x, y, width, height) ==
    [x |-> x, y |-> y, width |-> width, height |-> height]

\* Rectangle(): the default constructor
EmptyRectangle == Rectangle(0, 0, 0, 0)

\* C++ int division: truncation toward zero (TLA+ \div rounds down)
CDiv(a, b) ==
    IF (a >= 0) = (b > 0) THEN Abs(a) \div Abs(b) ELSE -(Abs(a) \div Abs(b))

IsEmpty(r) == r.width <= 0 \/ r.height <= 0

\* Contains with the right and bottom edges taken as inside
ContainsClosed(r, px, py) ==
    px >= r.x /\ px <= r.x + r.width /\ py >= r.y /\ py <= r.y + r.height

Contains(r, px, py) ==
    px >= r.x /\ px < r.x + r.width /\ py >= r.y /\ py < r.y + r.height

Intersects(r, o) ==
    /\ r.x < o.x + o.width
    /\ r.x + r.width > o.x
    /\ r.y < o.y + o.height
    /\ r.y + r.height > o.y

\* Union without the tests for an empty operand
UnionOfBounds(r, o) ==
    LET left   == Min(r.x, o.x)
        top    == Min(r.y, o.y)
        right  == Max(r.x + r.width, o.x + o.width)
        bottom == Max(r.y + r.height, o.y + o.height)
    IN  Rectangle(left, top, right - left, bottom - top)

\* Union taking the right and bottom edges for the width and height
UnionToEdges(r, o) ==
    IF IsEmpty(r) THEN o
    ELSE IF IsEmpty(o) THEN r
    ELSE LET left   == Min(r.x, o.x)
             top    == Min(r.y, o.y)
             right  == Max(r.x + r.width, o.x + o.width)
             bottom == Max(r.y + r.height, o.y + o.height)
         IN  Rectangle(left, top, right, bottom)

Union(r, o) ==
    IF IsEmpty(r) THEN o
    ELSE IF IsEmpty(o) THEN r
    ELSE LET left   == Min(r.x, o.x)
             top    == Min(r.y, o.y)
             right  == Max(r.x + r.width, o.x + o.width)
             bottom == Max(r.y + r.height, o.y + o.height)
         IN  Rectangle(left, top, right - left, bottom - top)

\* Intersection that takes touching edges as an overlap (> for >=)
IntersectionTouching(r, o) ==
    LET left   == Max(r.x, o.x)
        top    == Max(r.y, o.y)
        right  == Min(r.x + r.width, o.x + o.width)
        bottom == Min(r.y + r.height, o.y + o.height)
    IN  IF left > right \/ top > bottom THEN EmptyRectangle
        ELSE Rectangle(left, top, right - left, bottom - top)

\* Intersection that returns the receiver when there is no overlap
IntersectionOrReceiver(r, o) ==
    LET left   == Max(r.x, o.x)
        top    == Max(r.y, o.y)
        right  == Min(r.x + r.width, o.x + o.width)
        bottom == Min(r.y + r.height, o.y + o.height)
    IN  IF left >= right \/ top >= bottom THEN r
        ELSE Rectangle(left, top, right - left, bottom - top)

Intersection(r, o) ==
    LET left   == Max(r.x, o.x)
        top    == Max(r.y, o.y)
        right  == Min(r.x + r.width, o.x + o.width)
        bottom == Min(r.y + r.height, o.y + o.height)
    IN  IF left >= right \/ top >= bottom THEN EmptyRectangle
        ELSE Rectangle(left, top, right - left, bottom - top)

\* AspectRatio answering 0 for every height that is not positive
AspectRatioOfPositive(r) ==
    IF r.height <= 0 THEN FZero ELSE FDiv(ToFloat(r.width), ToFloat(r.height))

AspectRatio(r) ==
    IF r.height = 0 THEN FZero ELSE FDiv(ToFloat(r.width), ToFloat(r.height))

\* FitInside with the aspect comparison the wrong way round
FitInsideSwapped(r, container, maintainAspectRatio) ==
    IF IsEmpty(container) \/ IsEmpty(r) THEN EmptyRectangle
    ELSE IF ~maintainAspectRatio THEN container
    ELSE LET containerAspect == AspectRatio(container)
             thisAspect      == AspectRatio(r)
             fitToWidth      == FLess(thisAspect, containerAspect)
             newWidth  == IF fitToWidth THEN container.width
                          ELSE FTrunc(FMul(ToFloat(container.height), thisAspect))
             newHeight == IF fitToWidth
                          THEN FTrunc(FDiv(ToFloat(container.width), thisAspect))
                          ELSE container.height
             newX == container.x + CDiv(container.width - newWidth, 2)
             newY == container.y + CDiv(container.height - newHeight, 2)
         IN  Rectangle(newX, newY, newWidth, newHeight)

\* FitInside that scales whether or not the aspect ratio is to be maintained
FitInsideScaled(r, container, maintainAspectRatio) ==
    IF IsEmpty(container) \/ IsEmpty(r) THEN EmptyRectangle
    ELSE LET containerAspect == AspectRatio(container)
             thisAspect      == AspectRatio(r)
             fitToWidth      == FLess(containerAspect, thisAspect)
             newWidth  == IF fitToWidth THEN container.width
                          ELSE FTrunc(FMul(ToFloat(container.height), thisAspect))
             newHeight == IF fitToWidth
                          THEN FTrunc(FDiv(ToFloat(container.width), thisAspect))
                          ELSE container.height
             newX == container.x + CDiv(container.width - newWidth, 2)
             newY == container.y + CDiv(container.height - newHeight, 2)
         IN  Rectangle(newX, newY, newWidth, newHeight)

FitInside(r, container, maintainAspectRatio) ==
    IF IsEmpty(container) \/ IsEmpty(r) THEN EmptyRectangle
    ELSE IF ~maintainAspectRatio THEN container
    ELSE LET containerAspect == AspectRatio(container)
             thisAspect      == AspectRatio(r)
             fitToWidth      == FLess(containerAspect, thisAspect)
             newWidth  == IF fitToWidth THEN container.width
                          ELSE FTrunc(FMul(ToFloat(container.height), thisAspect))
             newHeight == IF fitToWidth
                          THEN FTrunc(FDiv(ToFloat(container.width), thisAspect))
                          ELSE container.height
             newX == container.x + CDiv(container.width - newWidth, 2)
             newY == container.y + CDiv(container.height - newHeight, 2)
         IN  Rectangle(newX, newY, newWidth, newHeight)

\* std::clamp(v, lo, hi).  With hi < lo the call is outside its precondition
\* (undefined behaviour): release builds of the common standard libraries
\* return one of lo, hi or v depending on the order of their two comparisons.
StdClampDefined(lo, hi) == ~(hi < lo)
StdClamp(v, lo, hi) ==
    IF StdClampDefined(lo, hi)
    THEN {IF v < lo THEN lo ELSE IF hi < v THEN hi ELSE v}
    ELSE {lo, hi, v}

\* ClampTo keeping the width it was given
ClampToWidthKept(r, bounds) == r.width

\* the size ClampTo returns
ClampToWidth(r, bounds) == Min(r.width, bounds.width)
ClampToHeight(r, bounds) == Min(r.height, bounds.height)

\* every rectangle r.ClampTo(bounds) can return
ClampTo(r, bounds) ==
    { Rectangle(newX, newY, ClampToWidth(r, bounds), ClampToHeight(r, bounds)) :
        newX \in StdClamp(r.x, bounds.x, bounds.x + bounds.width - r.width),
        newY \in StdClamp(r.y, bounds.y, bounds.y + bounds.height - r.height) }


RECURSIVE SumRatios(_)
\* totalRatio += ratio over the list.  Ratios are floats holding small
\* integers, whose float sums are exact, so the sum is formed in integers.
SumRatios(ratios) ==
    IF ratios = <<>> THEN 0 ELSE Head(ratios) + SumRatios(Tail(ratios))

\* a band's extent without the adjustment of the last band
SectionExtentTruncated(extent, ratio, totalRatio, isLast, remaining) ==
    FTrunc(FMul(ToFloat(extent), FDiv(ToFloat(ratio), ToFloat(totalRatio))))

\* one band's extent: the truncated share, or for the last band what is left
SectionExtent(extent, ratio, totalRatio, isLast, remaining) ==
    LET normalizedRatio == FDiv(ToFloat(ratio), ToFloat(totalRatio))
        section         == FTrunc(FMul(ToFloat(extent), normalizedRatio))
    IN  IF isLast THEN remaining ELSE section

RECURSIVE SubdivideHorizontalFrom(_, _, _, _, _)
\* the loop of SubdivideHorizontal from index i on
SubdivideHorizontalFrom(r, ratios, totalRatio, i, currentX) ==
    IF i > Len(ratios) THEN <<>>
    ELSE LET sectionWidth == SectionExtent(r.width, ratios[i], totalRatio,
                                 i = Len(ratios), (r.x + r.width) - currentX)
         IN  <<Rectangle(currentX, r.y, sectionWidth, r.height)>> \o
             SubdivideHorizontalFrom(r, ratios, totalRatio, i + 1,
                                     currentX + sectionWidth)

SubdivideHorizontal(r, ratios) ==
    IF ratios = <<>> THEN <<>>
    ELSE LET totalRatio == SumRatios(ratios)
         IN  IF totalRatio <= 0 THEN <<>>
             ELSE SubdivideHorizontalFrom(r, ratios, totalRatio, 1, r.x)

RECURSIVE SubdivideVerticalFrom(_, _, _, _, _)
\* the loop of SubdivideVertical from index i on
SubdivideVerticalFrom(r, ratios, totalRatio, i, currentY) ==
    IF i > Len(ratios) THEN <<>>
    ELSE LET sectionHeight == SectionExtent(r.height, ratios[i], totalRatio,
                                  i = Len(ratios), (r.y + r.height) - currentY)
         IN  <<Rectangle(r.x, currentY, r.width, sectionHeight)>> \o
             SubdivideVerticalFrom(r, ratios, totalRatio, i + 1,
                                   currentY + sectionHeight)

SubdivideVertical(r, ratios) ==
    IF ratios = <<>> THEN <<>>
    ELSE LET totalRatio == SumRatios(ratios)
         IN  IF totalRatio <= 0 THEN <<>>
             ELSE SubdivideVerticalFrom(r, ratios, totalRatio, 1, r.y)


\* CreateGrid with the cell width taken from the whole width (no spacing
\* deducted)
CreateGridUnspaced(r, row, col, rows, cols, spacing) ==
    IF rows <= 0 \/ cols <= 0 \/ row < 0 \/ col < 0 \/ row >= rows \/ col >= cols
    THEN EmptyRectangle
    ELSE LET totalSpacingY == spacing * (rows - 1)
             cellWidth  == CDiv(r.width, cols)
             cellHeight == CDiv(r.height - totalSpacingY, rows)
             cellX == r.x + col * (cellWidth + spacing)
             cellY == r.y + row * (cellHeight + spacing)
         IN  Rectangle(cellX, cellY, cellWidth, cellHeight)

CreateGrid(r, row, col, rows, cols, spacing) ==
    IF rows <= 0 \/ cols <= 0 \/ row < 0 \/ col < 0 \/ row >= rows \/ col >= cols
    THEN EmptyRectangle
    ELSE LET totalSpacingX == spacing * (cols - 1)
             totalSpacingY == spacing * (rows - 1)
             cellWidth  == CDiv(r.width - totalSpacingX, cols)
             cellHeight == CDiv(r.height - totalSpacingY, rows)
             cellX == r.x + col * (cellWidth + spacing)
             cellY == r.y + row * (cellHeight + spacing)
         IN  Rectangle(cellX, cellY, cellWidth, cellHeight)

\* ContainsRectangle that tests the horizontal bounds only
ContainsRectangleAcross(r, o) ==
    /\ o.x >= r.x
    /\ o.x + o.width <= r.x + r.width

ContainsRectangle(r, o) ==
    /\ o.x >= r.x
    /\ o.y >= r.y
    /\ o.x + o.width <= r.x + r.width
    /\ o.y + o.height <= r.y + r.height

\* ImVec2: a pair of floats
ImVec2(fx, fy) == [x |-> fx, y |-> fy]

\* Rectangle::Center: the int centre, converted to float
Center(r) ==
    ImVec2(ToFloat(r.x + CDiv(r.width, 2)), ToFloat(r.y + CDiv(r.height, 2)))

\* Rectangle::Scale(scaleX, scaleY, origin)
Scale(r, scaleX, scaleY, origin) ==
    LET newWidth  == FMul(ToFloat(r.width), scaleX)
        newHeight == FMul(ToFloat(r.height), scaleY)
        newX == FAdd(origin.x, FMul(FSub(ToFloat(r.x), origin.x), scaleX))
        newY == FAdd(origin.y, FMul(FSub(ToFloat(r.y), origin.y), scaleY))
    IN  Rectangle(FTrunc(newX), FTrunc(newY), FTrunc(newWidth), FTrunc(newHeight))

\* Rectangle::Scale(scale)
ScaleAroundCenter(r, scale) == Scale(r, scale, scale, Center(r))

\* std::min and std::max on floats
StdMinF(a, b) == IF FLess(b, a) THEN b ELSE a
StdMaxF(a, b) == IF FLess(a, b) THEN b ELSE a

\* Rectangle::FromTwoPoints
FromTwoPoints(point1, point2) ==
    LET left   == FTrunc(StdMinF(point1.x, point2.x))
        top    == FTrunc(StdMinF(point1.y, point2.y))
        right  == FTrunc(StdMaxF(point1.x, point2.x))
        bottom == FTrunc(StdMaxF(point1.y, point2.y))
    IN  Rectangle(left, top, right - left, bottom - top)

\* Rectangle::FromCenter
FromCenter(center, width, height) ==
    LET x == FTrunc(FSub(center.x, ToFloat(CDiv(width, 2))))
        y == FTrunc(FSub(center.y, ToFloat(CDiv(height, 2))))
    IN  Rectangle(x, y, width, height)

(***************************************************************************)
(* RectangleUtils (Rectangle.cpp).                                         *)
(***************************************************************************)
RECURSIVE CeilSqrtFrom(_, _)
\* static_cast<int>(std::ceil(std::sqrt(n))) for n >= 1: the least c with
\* c * c >= n (the square root of a small int is exact when it is whole)
CeilSqrtFrom(n, c) == IF c * c >= n THEN c ELSE CeilSqrtFrom(n, c + 1)
CeilSqrt(n) == CeilSqrtFrom(n, 1)

ArrangeInGrid(container, itemCount, preferredColumns, spacing, padding) ==
    IF itemCount <= 0 THEN <<>>
    ELSE LET columns == IF preferredColumns > 0 THEN preferredColumns
                        ELSE CeilSqrt(itemCount)
             rows    == CDiv(itemCount + columns - 1, columns)
             availableWidth  == container.width - FTrunc(FMul(padding.x, ToFloat(2)))
             availableHeight == container.height - FTrunc(FMul(padding.y, ToFloat(2)))
             totalSpacingX == FTrunc(FMul(spacing.x, ToFloat(columns - 1)))
             totalSpacingY == FTrunc(FMul(spacing.y, ToFloat(rows - 1)))
             cellWidth  == CDiv(availableWidth - totalSpacingX, columns)
             cellHeight == CDiv(availableHeight - totalSpacingY, rows)
         IN  [k \in 1..itemCount |->
                 LET i   == k - 1
                     row == CDiv(i, columns)
                     col == i % columns
                 IN  Rectangle(container.x + FTrunc(padding.x)
                                   + col * (cellWidth + FTrunc(spacing.x)),
                               container.y + FTrunc(padding.y)
                                   + row * (cellHeight + FTrunc(spacing.y)),
                               cellWidth, cellHeight)]

\* ArrangeInLine returning the padded container as its one item, whatever
\* itemCount is
ArrangeInLineOne(container, itemCount, horizontal, spacing, padding) ==
    <<Rectangle(container.x + FTrunc(padding.x), container.y + FTrunc(padding.y),
                container.width - FTrunc(FMul(padding.x, ToFloat(2))),
                container.height - FTrunc(FMul(padding.y, ToFloat(2))))>>

ArrangeInLine(container, itemCount, horizontal, spacing, padding) ==
    IF itemCount <= 0 THEN <<>>
    ELSE IF horizontal
    THEN LET availableWidth == container.width - FTrunc(FMul(padding.x, ToFloat(2)))
             totalSpacing   == FTrunc(FMul(spacing.x, ToFloat(itemCount - 1)))
             itemWidth      == CDiv(availableWidth - totalSpacing, itemCount)
             itemHeight     == container.height - FTrunc(FMul(padding.y, ToFloat(2)))
         IN  [k \in 1..itemCount |->
                 Rectangle(container.x + FTrunc(padding.x)
                               + (k - 1) * (itemWidth + FTrunc(spacing.x)),
                           container.y + FTrunc(padding.y),
                           itemWidth, itemHeight)]
    ELSE LET availableHeight == container.height - FTrunc(FMul(padding.y, ToFloat(2)))
             totalSpacing    == FTrunc(FMul(spacing.y, ToFloat(itemCount - 1)))
             itemHeight      == CDiv(availableHeight - totalSpacing, itemCount)
             itemWidth       == container.width - FTrunc(FMul(padding.x, ToFloat(2)))
         IN  [k \in 1..itemCount |->
                 Rectangle(container.x + FTrunc(padding.x),
                           container.y + FTrunc(padding.y)
                               + (k - 1) * (itemHeight + FTrunc(spacing.y)),
                           itemWidth, itemHeight)]

RECURSIVE BoundingBoxFrom(_, _, _, _, _, _)
\* the loop of CalculateBoundingBox from index i on
BoundingBoxFrom(rectangles, i, minX, minY, maxX, maxY) ==
    IF i > Len(rectangles) THEN Rectangle(minX, minY, maxX - minX, maxY - minY)
    ELSE LET r == rectangles[i]
         IN  BoundingBoxFrom(rectangles, i + 1, Min(minX, r.x), Min(minY, r.y),
                             Max(maxX, r.x + r.width), Max(maxY, r.y + r.height))

CalculateBoundingBox(rectangles) ==
    IF rectangles = <<>> THEN EmptyRectangle
    ELSE LET r == rectangles[1]
         IN  BoundingBoxFrom(rectangles, 2, r.x, r.y, r.x + r.width, r.y + r.height)

(***************************************************************************)
(* SizeValue and Size (include/ImGuiForms/Core/Size.h): a float value and  *)
(* the isRelative flag.                                                    *)
(***************************************************************************)
FOne == ToFloat(1)

\* std::min on floats: (b < a) ? b : a
FMin(a, b) == IF FLess(b, a) THEN b ELSE a

\* SizeValue::Content()
Content == [value |-> ToFloat(-1), isRelative |-> FALSE]

\* SizeValue::Parent()
Parent == [value |-> FOne, isRelative |-> TRUE]

\* SizeValue::Absolute(pixels)
Absolute(pixels) == [value |-> ToFloat(Max(pixels, -1)), isRelative |-> FALSE]

\* SizeValue::Relative(factor), the factor given as the float nearest num/den
Relative(num, den) ==
    LET factor == FDiv(ToFloat(num), ToFloat(den))
    IN  [value |-> IF FLess(factor, FZero) THEN FZero
                   ELSE IF FLess(FOne, factor) THEN FOne ELSE factor,
         isRelative |-> TRUE]

\* SizeValue(float val, bool relative): stores both arguments as given
SizeValue(val, relative) == [value |-> val, isRelative |-> relative]

\* SizeValue(): value(-1.0f), isRelative(false)
SizeValueDefault == [value |-> ToFloat(-1), isRelative |-> FALSE]

\* SizeValue(int pixels) : SizeValue(Absolute(pixels))
SizeValueOfInt(pixels) == Absolute(pixels)

\* SizeValue(float factor) : SizeValue(Relative(factor))
SizeValueOfFloat(num, den) == Relative(num, den)

IsAbsolute(sizeValue) == ~sizeValue.isRelative

IsContentAligned(sizeValue) ==
    IsAbsolute(sizeValue) /\ FTrunc(sizeValue.value) = -1

\* Size(w, h)
Size(w, h) == [width |-> w, height |-> h]

\* GetDimension that leaves the layout correction out
GetDimensionUncorrected(sizeValue, maxValue, correction) ==
    IF IsAbsolute(sizeValue)
    THEN FTrunc(FMin(sizeValue.value, ToFloat(maxValue)))
    ELSE FFloor(FMul(sizeValue.value, ToFloat(maxValue)))

\* Component::GetDimension; correction is a float
GetDimension(sizeValue, maxValue, correction) ==
    IF IsAbsolute(sizeValue)
    THEN FTrunc(FMin(sizeValue.value, ToFloat(maxValue)))
    ELSE FFloor(FMul(FMul(sizeValue.value, ToFloat(maxValue)), correction))

(***************************************************************************)
(* The renderer's text measurement, ImGui::CalcTextSize, as Label calls    *)
(* it.  A text is its sequence of lines, each line its number of glyphs:   *)
(* <<0>> is the empty string, a text of two or more lines contains '\n'.   *)
(* The font has a fixed advance and line height.  With wrapWidth > 0 a     *)
(* line is broken into rows of as many glyphs as fit (at least one).       *)
(***************************************************************************)
Font == [glyphWidth |-> 8, lineHeight |-> 18]

\* the rows a line of n glyphs takes
RowsOf(n, wrapWidth) ==
    IF wrapWidth <= 0 THEN 1
    ELSE LET perRow == Max(1, wrapWidth \div Font.glyphWidth)
         IN  Max(1, (n + perRow - 1) \div perRow)

\* the widest row of a line of n glyphs
RowWidthOf(n, wrapWidth) ==
    IF wrapWidth <= 0 THEN n * Font.glyphWidth
    ELSE Min(n, Max(1, wrapWidth \div Font.glyphWidth)) * Font.glyphWidth

RECURSIVE TextRows(_, _)
TextRows(text, wrapWidth) ==
    IF Len(text) = 1
    THEN \* a last line that is empty adds a row only to an empty text
         RowsOf(text[1], wrapWidth)
    ELSE RowsOf(Head(text), wrapWidth) +
         (IF Len(text) = 2 /\ text[2] = 0 THEN 0 ELSE TextRows(Tail(text), wrapWidth))

RECURSIVE TextWidth(_, _)
TextWidth(text, wrapWidth) ==
    IF text = <<>> THEN 0
    ELSE Max(RowWidthOf(Head(text), wrapWidth), TextWidth(Tail(text), wrapWidth))

\* ImGui::CalcTextSize(text, nullptr, false, wrapWidth); wrapWidth < 0 (the
\* default, -1) measures without wrapping
CalcTextSize(text, wrapWidth) ==
    [x |-> TextWidth(text, wrapWidth),
     y |-> TextRows(text, wrapWidth) * Font.lineHeight]

NoWrap == -1

\* std::string::empty()
TextEmpty(text) == text = <<0>>

\* text.find('\n') != npos
TextHasNewline(text) == Len(text) > 1

VARIABLES
    call,    \* the operation applied ("none" before it)
    rect,    \* the rectangle it is applied to (*this)
    other,   \* its rectangle argument
    arg,     \* its other arguments
    ret,     \* what it returned
    nodes,   \* the component tree: nodes[id] is a Panel or a Label
    stack,   \* the components whose GetWidth/GetHeight is executing, root first
    calls,   \* calls[id]: the arguments of each GetWidth/GetHeight call made on id
    framework,  \* the statics of Component.cpp: nextId, initialized, Internal::*
    imgui,      \* the renderer calls made by the Update that ran last
    history     \* what a caller has seen: ids issued, Updates of the frame

geomVars == <<rect, other>>
layoutVars == <<nodes, stack, calls>>
frameworkVars == <<framework, imgui, history>>
vars == <<call, rect, other, arg, ret, nodes, stack, calls, framework, imgui, history>>

\* no component tree: the state of the layout variables in the geometry
\* specifications
NoLayout == nodes = <<>> /\ stack = <<>> /\ calls = <<>>

\* no component has been constructed and no Framework function called: the
\* state of the framework variables in the geometry and layout specifications
NoFramework == framework = <<>> /\ imgui = <<>> /\ history = <<>>

(***************************************************************************)
(* Inputs of the geometry specification.                                   *)
(***************************************************************************)
\* the rectangles of RectangleDemo.cpp
DemoRects ==
    { Rectangle(10, 20, 100, 50), Rectangle(60, 30, 80, 40),
      Rectangle(50, 50, 100, 100), Rectangle(10, 10, 100, 50),
      Rectangle(0, 0, 80, 40), Rectangle(50, 50, 100, 60) }

SmallRects ==
    { Rectangle(x, y, w, h) : x \in 0..MaxPos, y \in 0..MaxPos,
                              w \in -1..MaxExt, h \in -1..MaxExt }

RectInputs == SmallRects \cup DemoRects

NoArg == <<>>

InitGeom ==
    /\ call = "none"
    /\ rect \in RectInputs
    /\ other \in RectInputs
    /\ arg = NoArg
    /\ ret = NoArg
    /\ NoLayout
    /\ NoFramework

DoUnion ==
    /\ call = "none"
    /\ call' = "Union"
    /\ ret' = Union(rect, other)
    /\ UNCHANGED <<rect, other, arg>>
    /\ UNCHANGED <<layoutVars, frameworkVars>>

DoIntersection ==
    /\ call = "none"
    /\ call' = "Intersection"
    /\ ret' = Intersection(rect, other)
    /\ UNCHANGED <<rect, other, arg>>
    /\ UNCHANGED <<layoutVars, frameworkVars>>

DoClampTo ==
    /\ call = "none"
    /\ call' = "ClampTo"
    /\ ret' \in ClampTo(rect, other)
    /\ UNCHANGED <<rect, other, arg>>
    /\ UNCHANGED <<layoutVars, frameworkVars>>

\* a build whose std::clamp asserts its precondition stops instead
DoClampToAbort ==
    /\ call = "none"
    /\ \/ ~StdClampDefined(other.x, other.x + other.width - rect.width)
       \/ ~StdClampDefined(other.y, other.y + other.height - rect.height)
    /\ call' = "ClampTo:abort"
    /\ UNCHANGED <<rect, other, arg, ret>>
    /\ UNCHANGED <<layoutVars, frameworkVars>>

NextGeom == DoUnion \/ DoIntersection \/ DoClampTo \/ DoClampToAbort

SpecGeom == InitGeom /\ [][NextGeom]_vars

(***************************************************************************)
(* ContainsRectangle on a pair of rectangles, asked both ways and of the   *)
(* receiver itself.                                                        *)
(***************************************************************************)
DoContainsRectangle ==
    /\ call = "none"
    /\ call' = "ContainsRectangle"
    /\ ret' = [thisContainsOther |-> ContainsRectangle(rect, other),
               otherContainsThis |-> ContainsRectangle(other, rect),
               thisContainsThis  |-> ContainsRectangle(rect, rect)]
    /\ UNCHANGED <<rect, other, arg>>
    /\ UNCHANGED <<layoutVars, frameworkVars>>

NextContainsRectangle == DoContainsRectangle

SpecContainsRectangle == InitGeom /\ [][NextContainsRectangle]_vars

(***************************************************************************)
(* Intersects, Intersection and Union on a pair of rectangles, the last    *)
(* two asked both ways.                                                    *)
(***************************************************************************)
DoBothWays ==
    /\ call = "none"
    /\ call' = "BothWays"
    /\ ret' = [intersects          |-> Intersects(rect, other),
               intersection        |-> Intersection(rect, other),
               intersectionSwapped |-> Intersection(other, rect),
               union               |-> Union(rect, other),
               unionSwapped        |-> Union(other, rect)]
    /\ UNCHANGED <<rect, other, arg>>
    /\ UNCHANGED <<layoutVars, frameworkVars>>

NextBothWays == DoBothWays

SpecBothWays == InitGeom /\ [][NextBothWays]_vars

(***************************************************************************)
(* Contains and Intersects on a pair of rectangles and a point.            *)
(***************************************************************************)
ContainsRects ==
    { Rectangle(x, y, w, h) : x \in 0..1, y \in 0..1,
                              w \in -1..MaxExt, h \in -1..MaxExt }
      \cup DemoRects

\* the points of the plane around ContainsRects, and those of RectangleDemo.cpp
PointInputs ==
    ((-1..(MaxExt + 2)) \X (-1..(MaxExt + 2)))
      \cup {<<75, 75>>, <<25, 25>>, <<50, 50>>, <<150, 150>>}

InitContains ==
    /\ call = "none"
    /\ rect \in ContainsRects
    /\ other \in ContainsRects
    /\ arg = NoArg
    /\ ret = NoArg
    /\ NoLayout
    /\ NoFramework

\* Contains(px, py) on both rectangles, and Intersects between them
DoContains ==
    /\ call = "none"
    /\ \E pt \in PointInputs :
          /\ arg' = pt
          /\ ret' = [inThis     |-> Contains(rect, pt[1], pt[2]),
                     inOther    |-> Contains(other, pt[1], pt[2]),
                     intersects |-> Intersects(rect, other)]
    /\ call' = "Contains"
    /\ UNCHANGED <<rect, other>>
    /\ UNCHANGED <<layoutVars, frameworkVars>>

NextContains == DoContains

SpecContains == InitContains /\ [][NextContains]_vars

(***************************************************************************)
(* FitInside.                                                              *)
(***************************************************************************)
FitRects ==
    { Rectangle(p[1], p[2], w, h) : p \in {<<0, 0>>, <<1, 2>>},
                                    w \in -1..MaxFit, h \in -1..MaxFit }

InitFit ==
    /\ call = "none"
    /\ \/ rect \in FitRects /\ other \in FitRects
       \/ rect = Rectangle(50, 50, 100, 60) /\ other = Rectangle(0, 0, 400, 300)
    /\ arg \in BOOLEAN
    /\ ret = NoArg
    /\ NoLayout
    /\ NoFramework

DoFitInside ==
    /\ call = "none"
    /\ call' = "FitInside"
    /\ ret' = FitInside(rect, other, arg)
    /\ UNCHANGED <<rect, other, arg>>
    /\ UNCHANGED <<layoutVars, frameworkVars>>

NextFit == DoFitInside

SpecFit == InitFit /\ [][NextFit]_vars

(***************************************************************************)
(* AspectRatio.                                                            *)
(***************************************************************************)
AspectRects ==
    FitRects \cup { Rectangle(0, 0, 100, 0), Rectangle(0, 0, 100, 100),
                    Rectangle(0, 0, 200, 50) }

InitAspect ==
    /\ call = "none"
    /\ rect \in AspectRects
    /\ other = EmptyRectangle
    /\ arg = NoArg
    /\ ret = NoArg
    /\ NoLayout
    /\ NoFramework

DoAspectRatio ==
    /\ call = "none"
    /\ call' = "AspectRatio"
    /\ ret' = AspectRatio(rect)
    /\ UNCHANGED <<rect, other, arg>>
    /\ UNCHANGED <<layoutVars, frameworkVars>>

NextAspect == DoAspectRatio

SpecAspect == InitAspect /\ [][NextAspect]_vars

(***************************************************************************)
(* SubdivideHorizontal and SubdivideVertical.                              *)
(***************************************************************************)
SubdivideRects ==
    { Rectangle(x, y, w, h) : x \in {0, 1}, y \in {0, 2},
                              w \in -1..MaxAxis, h \in -1..MaxAxis }

RatioLists ==
    UNION { [1..n -> -1..MaxRatio] : n \in 0..MaxRatios }

InitSubdivide ==
    /\ call = "none"
    /\ \/ rect \in SubdivideRects /\ arg \in RatioLists
       \/ rect = Rectangle(0, 0, 400, 300) /\ arg \in {<<1, 2, 1>>, <<1, 1>>}
       \/ rect = Rectangle(3, 5, 108, 216) /\ arg \in {<<7, 5>>, <<5, 7>>}
    /\ other = EmptyRectangle
    /\ ret = NoArg
    /\ NoLayout
    /\ NoFramework

DoSubdivideHorizontal ==
    /\ call = "none"
    /\ call' = "SubdivideHorizontal"
    /\ ret' = SubdivideHorizontal(rect, arg)
    /\ UNCHANGED <<rect, other, arg>>
    /\ UNCHANGED <<layoutVars, frameworkVars>>

DoSubdivideVertical ==
    /\ call = "none"
    /\ call' = "SubdivideVertical"
    /\ ret' = SubdivideVertical(rect, arg)
    /\ UNCHANGED <<rect, other, arg>>
    /\ UNCHANGED <<layoutVars, frameworkVars>>

NextSubdivide == DoSubdivideHorizontal \/ DoSubdivideVertical

SpecSubdivide == InitSubdivide /\ [][NextSubdivide]_vars

(***************************************************************************)
(* Scale.  A scale factor is given as <<num, den>>, standing for the float *)
(* nearest num/den; an origin as a point of int coordinates.               *)
(***************************************************************************)
FloatOf(q) == FDiv(ToFloat(q[1]), ToFloat(q[2]))

ScaleRects ==
    { Rectangle(x, y, w, h) : x \in {0, 1}, y \in {0, -2},
                              w \in -1..(MaxExt + 2), h \in {0, MaxExt, MaxExt + 1} }
      \cup {Rectangle(50, 50, 100, 60)}

ScaleFactors ==
    {<<1, 1>>, <<2, 1>>, <<3, 2>>, <<1, 2>>, <<1, 3>>, <<0, 1>>, <<-1, 1>>}

ScaleOrigins == {<<0, 0>>, <<1, 2>>, <<-3, 1>>}

InitScale ==
    /\ call = "none"
    /\ rect \in ScaleRects
    /\ \/ arg \in [scale : ScaleFactors]
       \/ arg \in [scaleX : ScaleFactors, scaleY : ScaleFactors, origin : ScaleOrigins]
    /\ other = EmptyRectangle
    /\ ret = NoArg
    /\ NoLayout
    /\ NoFramework

DoScale ==
    /\ call = "none"
    /\ "origin" \in DOMAIN arg
    /\ call' = "Scale"
    /\ ret' = Scale(rect, FloatOf(arg.scaleX), FloatOf(arg.scaleY),
                    ImVec2(ToFloat(arg.origin[1]), ToFloat(arg.origin[2])))
    /\ UNCHANGED <<rect, other, arg>>
    /\ UNCHANGED <<layoutVars, frameworkVars>>

DoScaleAroundCenter ==
    /\ call = "none"
    /\ "scale" \in DOMAIN arg
    /\ call' = "ScaleAroundCenter"
    /\ ret' = ScaleAroundCenter(rect, FloatOf(arg.scale))
    /\ UNCHANGED <<rect, other, arg>>
    /\ UNCHANGED <<layoutVars, frameworkVars>>

NextScale == DoScale \/ DoScaleAroundCenter

SpecScale == InitScale /\ [][NextScale]_vars

(***************************************************************************)
(* CreateGrid: one call, and the loop of RectangleDemo.cpp that asks for   *)
(* every cell of the grid.                                                 *)
(***************************************************************************)
GridRects ==
    { Rectangle(1, 2, w, h) : w \in -1..MaxAxis, h \in {0, 3, 5} }

GridArgs ==
    [row : -1..MaxGrid, col : -1..MaxGrid, rows : -1..MaxGrid, cols : -1..MaxGrid,
     spacing : -1..2]

InitGrid ==
    /\ call = "none"
    /\ \/ rect \in GridRects /\ arg \in GridArgs
       \/ /\ rect = Rectangle(0, 0, 400, 300)
          /\ arg \in [row : 0..2, col : 0..2, rows : {3}, cols : {3}, spacing : {5}]
    /\ other = EmptyRectangle
    /\ ret = NoArg
    /\ NoLayout
    /\ NoFramework

\* rect.CreateGrid(row, col, rows, cols, spacing)
DoCreateGrid ==
    /\ call = "none"
    /\ call' = "CreateGrid"
    /\ ret' = CreateGrid(rect, arg.row, arg.col, arg.rows, arg.cols, arg.spacing)
    /\ UNCHANGED <<rect, other, arg>>
    /\ UNCHANGED <<layoutVars, frameworkVars>>

\* for each row, for each col: rect.CreateGrid(row, col, rows, cols, spacing)
DoCreateGridCells ==
    /\ call = "none"
    /\ call' = "CreateGridCells"
    /\ ret' = [p \in (0..(arg.rows - 1)) \X (0..(arg.cols - 1)) |->
                  CreateGrid(rect, p[1], p[2], arg.rows, arg.cols, arg.spacing)]
    /\ UNCHANGED <<rect, other, arg>>
    /\ UNCHANGED <<layoutVars, frameworkVars>>

NextGrid == DoCreateGrid \/ DoCreateGridCells

SpecGrid == InitGrid /\ [][NextGrid]_vars

(***************************************************************************)
(* The layout helpers called with any arguments, degenerate ones included. *)
(* arg names the operation and holds its arguments; rect is the receiver   *)
(* (the container for RectangleUtils).                                     *)
(***************************************************************************)
HelperRects ==
    { Rectangle(1, 2, w, h) : w \in {-1, 0, MaxAxis}, h \in {0, MaxAxis + 1} }

\* spacing and padding: ImVec2 given by int coordinates
HelperVectors == {<<0, 0>>, <<1, 2>>}

Vec(p) == ImVec2(ToFloat(p[1]), ToFloat(p[2]))

HelperCalls ==
    [op : {"CreateGrid"}, row : -1..MaxGrid, col : -1..MaxGrid,
     rows : -1..MaxGrid, cols : -1..MaxGrid, spacing : 0..1]
    \cup [op : {"SubdivideHorizontal", "SubdivideVertical"}, ratios : RatioLists]
    \cup [op : {"ArrangeInGrid"}, itemCount : -1..MaxGrid, preferredColumns : -1..2,
          spacing : HelperVectors, padding : HelperVectors]
    \cup [op : {"ArrangeInLine"}, itemCount : -1..MaxGrid, horizontal : BOOLEAN,
          spacing : HelperVectors, padding : HelperVectors]
    \cup [op : {"CalculateBoundingBox"},
          rectangles : UNION { [1..n -> HelperRects] : n \in 0..2 }]

InitHelpers ==
    /\ call = "none"
    /\ rect \in HelperRects
    /\ arg \in HelperCalls
    /\ other = EmptyRectangle
    /\ ret = NoArg
    /\ NoLayout
    /\ NoFramework

CallCreateGrid ==
    /\ call = "none" /\ arg.op = "CreateGrid"
    /\ call' = arg.op
    /\ ret' = CreateGrid(rect, arg.row, arg.col, arg.rows, arg.cols, arg.spacing)
    /\ UNCHANGED <<rect, other, arg>>
    /\ UNCHANGED <<layoutVars, frameworkVars>>

CallSubdivideHorizontal ==
    /\ call = "none" /\ arg.op = "SubdivideHorizontal"
    /\ call' = arg.op
    /\ ret' = SubdivideHorizontal(rect, arg.ratios)
    /\ UNCHANGED <<rect, other, arg>>
    /\ UNCHANGED <<layoutVars, frameworkVars>>

CallSubdivideVertical ==
    /\ call = "none" /\ arg.op = "SubdivideVertical"
    /\ call' = arg.op
    /\ ret' = SubdivideVertical(rect, arg.ratios)
    /\ UNCHANGED <<rect, other, arg>>
    /\ UNCHANGED <<layoutVars, frameworkVars>>

CallArrangeInGrid ==
    /\ call = "none" /\ arg.op = "ArrangeInGrid"
    /\ call' = arg.op
    /\ ret' = ArrangeInGrid(rect, arg.itemCount, arg.preferredColumns,
                            Vec(arg.spacing), Vec(arg.padding))
    /\ UNCHANGED <<rect, other, arg>>
    /\ UNCHANGED <<layoutVars, frameworkVars>>

CallArrangeInLine ==
    /\ call = "none" /\ arg.op = "ArrangeInLine"
    /\ call' = arg.op
    /\ ret' = ArrangeInLine(rect, arg.itemCount, arg.horizontal,
                            Vec(arg.spacing), Vec(arg.padding))
    /\ UNCHANGED <<rect, other, arg>>
    /\ UNCHANGED <<layoutVars, frameworkVars>>

CallCalculateBoundingBox ==
    /\ call = "none" /\ arg.op = "CalculateBoundingBox"
    /\ call' = arg.op
    /\ ret' = CalculateBoundingBox(arg.rectangles)
    /\ UNCHANGED <<rect, other, arg>>
    /\ UNCHANGED <<layoutVars, frameworkVars>>

NextHelpers ==
    \/ CallCreateGrid
    \/ CallSubdivideHorizontal
    \/ CallSubdivideVertical
    \/ CallArrangeInGrid
    \/ CallArrangeInLine
    \/ CallCalculateBoundingBox

SpecHelpers == InitHelpers /\ [][NextHelpers]_vars

(***************************************************************************)
(* The factory methods FromTwoPoints and FromCenter.  A point is given by  *)
(* two quotients <<num, den>>, each standing for the float nearest to it.  *)
(***************************************************************************)
PointCoordinates ==
    {<<-3, 2>>, <<-1, 1>>, <<-1, 2>>, <<0, 1>>, <<1, 2>>, <<2, 1>>, <<5, 2>>}

FactoryPoints ==
    (PointCoordinates \X PointCoordinates)
      \cup { <<<<10, 1>>, <<20, 1>>>>, <<<<110, 1>>, <<80, 1>>>>, <<<<200, 1>>, <<150, 1>>>> }

PointOf(p) == ImVec2(FloatOf(p[1]), FloatOf(p[2]))

FactoryCalls ==
    [op : {"FromTwoPoints"}, point1 : FactoryPoints, point2 : FactoryPoints]
    \cup [op : {"FromCenter"}, center : FactoryPoints,
          width : (-2..(MaxExt + 1)) \cup {100}, height : (-2..(MaxExt + 1)) \cup {60}]

InitFactory ==
    /\ call = "none"
    /\ arg \in FactoryCalls
    /\ rect = EmptyRectangle
    /\ other = EmptyRectangle
    /\ ret = NoArg
    /\ NoLayout
    /\ NoFramework

CallFromTwoPoints ==
    /\ call = "none" /\ arg.op = "FromTwoPoints"
    /\ call' = arg.op
    /\ ret' = FromTwoPoints(PointOf(arg.point1), PointOf(arg.point2))
    /\ UNCHANGED <<rect, other, arg>>
    /\ UNCHANGED <<layoutVars, frameworkVars>>

CallFromCenter ==
    /\ call = "none" /\ arg.op = "FromCenter"
    /\ call' = arg.op
    /\ ret' = FromCenter(PointOf(arg.center), arg.width, arg.height)
    /\ UNCHANGED <<rect, other, arg>>
    /\ UNCHANGED <<layoutVars, frameworkVars>>

NextFactory == CallFromTwoPoints \/ CallFromCenter

SpecFactory == InitFactory /\ [][NextFactory]_vars

(***************************************************************************)
(* Construction of a SizeValue through each public constructor and factory *)
(* method.  Float arguments are the floats nearest a quotient num/den.     *)
(***************************************************************************)
SizeCalls ==
    LET SizePixels == -3..MaxAxis
        SizeFactors == { <<n, d>> : n \in -3..MaxAxis, d \in {1, 2, 4} }
    IN  { [op |-> o] : o \in {"SizeValue()", "Content", "Parent"} }
        \cup { [op |-> o, pixels |-> p] :
                 o \in {"Absolute", "SizeValue(int)"}, p \in SizePixels }
        \cup { [op |-> o, factor |-> f] :
                 o \in {"Relative", "SizeValue(float)"}, f \in SizeFactors }
        \cup { [op |-> "SizeValue(float,bool)", val |-> f, relative |-> b] :
                 f \in SizeFactors, b \in BOOLEAN }

InitSize ==
    /\ call = "none"
    /\ rect = EmptyRectangle
    /\ other = EmptyRectangle
    /\ arg \in SizeCalls
    /\ ret = NoArg
    /\ NoLayout
    /\ NoFramework

\* the constructed value is what ret holds
Construct(sizeValue) ==
    /\ call = "none"
    /\ call' = arg.op
    /\ ret' = sizeValue
    /\ UNCHANGED <<rect, other, arg>>
    /\ UNCHANGED <<layoutVars, frameworkVars>>

NewDefault == arg.op = "SizeValue()" /\ Construct(SizeValueDefault)

NewContent == arg.op = "Content" /\ Construct(Content)

NewParent == arg.op = "Parent" /\ Construct(Parent)

NewAbsolute == arg.op = "Absolute" /\ Construct(Absolute(arg.pixels))

NewRelative ==
    arg.op = "Relative" /\ Construct(Relative(arg.factor[1], arg.factor[2]))

NewOfInt == arg.op = "SizeValue(int)" /\ Construct(SizeValueOfInt(arg.pixels))

NewOfFloat ==
    /\ arg.op = "SizeValue(float)"
    /\ Construct(SizeValueOfFloat(arg.factor[1], arg.factor[2]))

NewOfValueAndFlag ==
    /\ arg.op = "SizeValue(float,bool)"
    /\ Construct(SizeValue(FDiv(ToFloat(arg.val[1]), ToFloat(arg.val[2])),
                           arg.relative))

NextSize ==
    \/ NewDefault
    \/ NewContent
    \/ NewParent
    \/ NewAbsolute
    \/ NewRelative
    \/ NewOfInt
    \/ NewOfFloat
    \/ NewOfValueAndFlag

SpecSize == InitSize /\ [][NextSize]_vars

(***************************************************************************)
(* The component tree and its size resolution (Component.h, Panel.cpp,     *)
(* Label.cpp).  A Panel owns at most one child (content, 0 for none), so a *)
(* tree is a chain; component 1 is the root.  GetWidth and GetHeight are   *)
(* executed call by call: stack holds the components whose call is active, *)
(* ret[id] the value a call on id returned (<<>> before it returns).       *)
(***************************************************************************)
Root == 1

\* Panel::GetSize / Label::GetSize
GetSize(id) == nodes[id].size

\* the size policy GetWidth (GetHeight) looks at
PolicyOnAxis(id) ==
    IF call = "GetWidth" THEN GetSize(id).width ELSE GetSize(id).height

\* Label::GetContentWidth
LabelGetContentWidth(id, parentWidth, parentHeight, layoutCorrection) ==
    IF TextEmpty(nodes[id].text) THEN 0
    ELSE CalcTextSize(nodes[id].text, NoWrap).x

\* Label::GetContentHeight wrapping every text at the parent width
LabelGetContentHeightWrapped(id, parentWidth, parentHeight, layoutCorrection) ==
    IF TextEmpty(nodes[id].text) THEN 0
    ELSE CalcTextSize(nodes[id].text, parentWidth).y

\* Label::GetContentHeight
LabelGetContentHeight(id, parentWidth, parentHeight, layoutCorrection) ==
    IF TextEmpty(nodes[id].text) THEN 0
    ELSE IF TextHasNewline(nodes[id].text)
         THEN CalcTextSize(nodes[id].text, parentWidth).y
         ELSE CalcTextSize(nodes[id].text, NoWrap).y

\* a Panel that asks itself instead of its child
PanelContentSelf(id) == id

\* Panel::GetContent: the child, 0 for none
PanelContent(id) == nodes[id].content

\* the float a layoutCorrection <<num, den>> stands for
CorrectionOf(a) == FDiv(ToFloat(a.layoutCorrection[1]), ToFloat(a.layoutCorrection[2]))

Top == stack[Len(stack)]

\* the arguments of the call executing on id
ArgsOf(id) == calls[id][Len(calls[id])]

Running == stack # <<>> /\ ret[Top] = <<>>

\* the caller invokes root->GetWidth(parentWidth, parentHeight, layoutCorrection)
CallGetWidth ==
    /\ call = "none"
    /\ call' = "GetWidth"
    /\ stack' = <<Root>>
    /\ calls' = [calls EXCEPT ![Root] = Append(@, arg)]
    /\ UNCHANGED <<arg, ret, nodes, geomVars, frameworkVars>>

\* the caller invokes root->GetHeight(parentWidth, parentHeight, layoutCorrection)
CallGetHeight ==
    /\ call = "none"
    /\ call' = "GetHeight"
    /\ stack' = <<Root>>
    /\ calls' = [calls EXCEPT ![Root] = Append(@, arg)]
    /\ UNCHANGED <<arg, ret, nodes, geomVars, frameworkVars>>

\* GetWidth/GetHeight, policy not Content: GetDimension against the parent
\* extent of the axis
ResolveDimension ==
    /\ Running
    /\ ~IsContentAligned(PolicyOnAxis(Top))
    /\ LET a        == ArgsOf(Top)
           maxValue == IF call = "GetWidth" THEN a.parentWidth ELSE a.parentHeight
       IN  ret' = [ret EXCEPT ![Top] =
                      <<GetDimension(PolicyOnAxis(Top), maxValue, CorrectionOf(a))>>]
    /\ UNCHANGED <<call, arg, nodes, stack, calls, geomVars, frameworkVars>>

\* GetWidth/GetHeight, policy Content, on a Label: the text measurement
MeasureLabel ==
    /\ Running
    /\ IsContentAligned(PolicyOnAxis(Top))
    /\ nodes[Top].kind = "Label"
    /\ LET a == ArgsOf(Top)
       IN  ret' = [ret EXCEPT ![Top] =
              IF call = "GetWidth"
              THEN <<LabelGetContentWidth(Top, a.parentWidth, a.parentHeight,
                                          CorrectionOf(a))>>
              ELSE <<LabelGetContentHeight(Top, a.parentWidth, a.parentHeight,
                                           CorrectionOf(a))>>]
    /\ UNCHANGED <<call, arg, nodes, stack, calls, geomVars, frameworkVars>>

\* a Panel without content that takes the parent's extent instead of 0
MeasureEmptyPanelAsParent ==
    /\ Running
    /\ IsContentAligned(PolicyOnAxis(Top))
    /\ nodes[Top].kind = "Panel"
    /\ nodes[Top].content = 0
    /\ ret' = [ret EXCEPT ![Top] =
                  <<IF call = "GetWidth" THEN ArgsOf(Top).parentWidth
                    ELSE ArgsOf(Top).parentHeight>>]
    /\ UNCHANGED <<call, arg, nodes, stack, calls, geomVars, frameworkVars>>

\* GetWidth/GetHeight, policy Content, on a Panel without content: 0
MeasureEmptyPanel ==
    /\ Running
    /\ IsContentAligned(PolicyOnAxis(Top))
    /\ nodes[Top].kind = "Panel"
    /\ PanelContent(Top) = 0
    /\ ret' = [ret EXCEPT ![Top] = <<0>>]
    /\ UNCHANGED <<call, arg, nodes, stack, calls, geomVars, frameworkVars>>

\* GetWidth/GetHeight, policy Content, on a Panel with content: the same call
\* on the child, with the arguments the panel was given
MeasureContent ==
    /\ Running
    /\ IsContentAligned(PolicyOnAxis(Top))
    /\ nodes[Top].kind = "Panel"
    /\ PanelContent(Top) # 0
    /\ stack' = Append(stack, PanelContent(Top))
    /\ calls' = [calls EXCEPT ![PanelContent(Top)] = Append(@, ArgsOf(Top))]
    /\ UNCHANGED <<call, arg, ret, nodes, geomVars, frameworkVars>>

\* a call returns; the panel that made it returns the same value
Return ==
    /\ stack # <<>>
    /\ ret[Top] # <<>>
    /\ stack' = SubSeq(stack, 1, Len(stack) - 1)
    /\ ret' = IF Len(stack) > 1
              THEN [ret EXCEPT ![stack[Len(stack) - 1]] = ret[Top]]
              ELSE ret
    /\ UNCHANGED <<call, arg, nodes, calls, geomVars, frameworkVars>>

LayoutStep ==
    ResolveDimension \/ MeasureLabel \/ MeasureEmptyPanel \/ MeasureContent \/ Return

NextLayout == CallGetWidth \/ CallGetHeight \/ LayoutStep

\* the call on the root has returned
Returned == call # "none" /\ stack = <<>>

(***************************************************************************)
(* Inputs of the layout specification.                                     *)
(***************************************************************************)
Label(text, size) ==
    [kind |-> "Label", size |-> size, text |-> text, content |-> 0]

Panel(content, size) ==
    [kind |-> "Panel", size |-> size, text |-> <<0>>, content |-> content]

TextInputs == {<<0>>, <<3>>, <<15>>, <<3, 15>>, <<2, 0>>}

\* policies of the trees: Content, a fixed extent, half of the parent
TreePolicies == {Content, Absolute(30), Relative(1, 2)}

TreeSizes == {Size(w, h) : w \in TreePolicies, h \in TreePolicies}

Leaves ==
    {Label(t, sz) : t \in TextInputs, sz \in TreeSizes}
      \cup {Panel(0, sz) : sz \in TreeSizes}

\* the chains of d components: d - 1 panels over a leaf
Chains(d) ==
    { [i \in 1..d |-> IF i < d THEN Panel(i + 1, szs[i]) ELSE leaf] :
        szs \in [1..(d - 1) -> TreeSizes], leaf \in Leaves }

TreeInputs == UNION { Chains(d) : d \in 1..MaxDepth }

TreeArgs ==
    { [parentWidth |-> pw, parentHeight |-> ph, layoutCorrection |-> lc] :
        pw \in {20, 100, 800}, ph \in {300, 600}, lc \in {<<1, 1>>, <<1, 2>>} }

\* policies of a single component: pixels, and fractions, exact in binary32
\* or not (1/3, 7/10, 1/10); 3/2 and -1/2 are clamped by Relative
AbsolutePixels == {0, 30, 500}
RelativeFractions ==
    {<<0, 1>>, <<1, 10>>, <<1, 4>>, <<1, 3>>, <<1, 2>>, <<7, 10>>, <<3, 4>>, <<1, 1>>,
     <<3, 2>>, <<-1, 2>>}

NodePolicies ==
    {Content} \cup {Absolute(v) : v \in AbsolutePixels}
              \cup {Relative(f[1], f[2]) : f \in RelativeFractions}

NodeInputs ==
    { <<c>> : c \in {Label(<<15>>, Size(w, h)) : w \in NodePolicies, h \in NodePolicies}
                \cup {Panel(0, Size(w, h)) : w \in NodePolicies, h \in NodePolicies} }

NodeArgs ==
    { [parentWidth |-> pw, parentHeight |-> ph, layoutCorrection |-> lc] :
        pw \in {-3, 0, 7, 10, 400, 800}, ph \in {5, 300, 600},
        lc \in {<<1, 1>>, <<1, 2>>, <<3, 2>>} }

InitLayout ==
    /\ call = "none"
    /\ \/ nodes \in TreeInputs /\ arg \in TreeArgs
       \/ nodes \in NodeInputs /\ arg \in NodeArgs
    /\ ret = [id \in DOMAIN nodes |-> <<>>]
    /\ calls = [id \in DOMAIN nodes |-> <<>>]
    /\ stack = <<>>
    /\ rect = EmptyRectangle
    /\ other = EmptyRectangle
    /\ NoFramework

SpecLayout == InitLayout /\ [][NextLayout]_vars

(***************************************************************************)
(* Component and Framework (Component.cpp, Component.h, Panel.cpp).  In    *)
(* these specifications nodes[ref] is a live component object, ref its     *)
(* place in the order of construction; content is the ref of the child a   *)
(* Panel owns, 0 for none.  framework holds Component::nextId,             *)
(* Framework::initialized and the statics of namespace Internal.           *)
(***************************************************************************)
\* the statics as the program starts
Statics ==
    [nextId |-> 0, initialized |-> FALSE, activeComponentIds |-> {},
     frameUsedIds |-> {}, frameComponentCount |-> 0,
     totalComponentsCreated |-> 0]

\* a component object with the default member values; kind "Throwing" is a
\* component whose UpdateInternal throws a std::exception
Component(kind, componentId, content) ==
    [kind |-> kind, componentId |-> componentId, content |-> content,
     visible |-> TRUE, enabled |-> TRUE, allowDragDrop |-> FALSE,
     showBorder |-> FALSE, tabInactive |-> FALSE]

\* Component::GetId
GetId(ref) == nodes[ref].componentId

\* Component::IsTabInactive
IsTabInactive(ref) == nodes[ref].tabInactive

\* Component::Component(): componentId(++nextId), registration, count
ComponentCtor(fw) ==
    [fw EXCEPT !.nextId = @ + 1,
               !.activeComponentIds = @ \cup {fw.nextId + 1},
               !.totalComponentsCreated = @ + 1]

\* Component::~Component() of each of the components with these ids
ComponentDtor(fw, ids) == [fw EXCEPT !.activeComponentIds = @ \ ids]

\* Component::ValidateHierarchy
ValidateHierarchy(ref) == GetId(ref) \in framework.activeComponentIds

\* Framework::GetStatistics
GetStatistics ==
    [activeComponents |-> Cardinality(framework.activeComponentIds),
     totalComponentsCreated |-> framework.totalComponentsCreated,
     frameComponentCount |-> framework.frameComponentCount]

\* the components owned by the caller: those that are no panel's content
Roots == { c \in DOMAIN nodes : \A p \in DOMAIN nodes : nodes[p].content # c }

RECURSIVE Subtree(_, _)
\* the component c of ns and everything below it
Subtree(ns, c) == IF c = 0 THEN {} ELSE {c} \cup Subtree(ns, ns[c].content)

\* the objects of ns without those of gone
Without(ns, gone) == [c \in (DOMAIN ns) \ gone |-> ns[c]]

\* Update's bookkeeping that counts a component once a frame
TrackOnce(fw, id) ==
    [fw EXCEPT !.frameUsedIds = @ \cup {id},
               !.frameComponentCount = Cardinality(fw.frameUsedIds \cup {id})]

\* Update: frameUsedIds.insert(componentId); frameComponentCount++
Track(fw, id) ==
    [fw EXCEPT !.frameUsedIds = @ \cup {id}, !.frameComponentCount = @ + 1]

\* st with one more renderer call
Rendered(st, what, ref) == [st EXCEPT !.imgui = Append(@, <<what, ref>>)]

RECURSIVE UpdateOf(_, _)
\* Component::Update on ref in the state st = [nodes, framework, imgui];
\* the try block ends at UpdateInternal when that throws
UpdateOf(ref, st) ==
    LET c == st.nodes[ref]
    IN  IF ~c.visible THEN [st EXCEPT !.nodes[ref].tabInactive = FALSE]
        ELSE
        LET tracked == [st EXCEPT !.framework = Track(@, c.componentId)]
            pushed  == Rendered(tracked, "PushID", ref)
            styled  == Rendered(pushed, "ApplyStyles", ref)
            entered == Rendered(styled, "UpdateInternal", ref)
            \* Panel::UpdateInternal: content->Update if content && content->visible
            inside  == IF c.kind = "Panel" /\ c.content # 0
                          /\ st.nodes[c.content].visible
                       THEN UpdateOf(c.content, entered)
                       ELSE entered
            tried   == IF c.kind = "Throwing" THEN inside
                       ELSE Rendered(inside, "RemoveStyles", ref)
            popped  == Rendered(tried, "PopID", ref)
            border  == IF c.showBorder THEN Rendered(popped, "AddRect", ref)
                       ELSE popped
            dropped == IF c.allowDragDrop /\ c.enabled
                       THEN Rendered(border, "HandleDragDrop", ref)
                       ELSE border
        IN  [dropped EXCEPT !.nodes[ref].tabInactive = FALSE]

RECURSIVE SetTabInactiveOf(_, _)
\* Component::SetTabInactive on ref: the mark, then Panel::SetTabInactiveCore
SetTabInactiveOf(ref, ns) ==
    LET marked == [ns EXCEPT ![ref].tabInactive = TRUE]
    IN  IF ns[ref].kind = "Panel" /\ ns[ref].content # 0
        THEN SetTabInactiveOf(ns[ref].content, marked)
        ELSE marked

\* what the caller has seen as the program starts
NoHistory == [issued |-> <<>>, updates |-> 0, beginFrame |-> "none", marked |-> 0]

\* the visible components an Update on ref reaches
RECURSIVE Reached(_, _)
Reached(ns, ref) ==
    IF ref = 0 \/ ~ns[ref].visible THEN {}
    ELSE {ref} \cup Reached(ns, ns[ref].content)

\* the variables no Component or Framework operation touches
idleVars == <<rect, other, stack, calls>>

\* new Label / new derived component / new Panel(child): Component::Component
\* and, for a Panel, the move of the child into content
New(kind, child) ==
    /\ Len(history.issued) < MaxComponents
    /\ kind = "Panel" \/ child = 0
    /\ child = 0 \/ child \in Roots
    /\ LET ref == Len(history.issued) + 1
           fw  == ComponentCtor(framework)
       IN  /\ framework' = fw
           /\ nodes' = (ref :> Component(kind, fw.nextId, child)) @@ nodes
           /\ history' = [history EXCEPT !.issued = Append(@, fw.nextId)]
           /\ arg' = ref
    /\ call' = "new"
    /\ ret' = NoArg
    /\ imgui' = <<>>
    /\ UNCHANGED idleVars

NewLabel == New("Label", 0)

NewPanel == \E child \in {0} \cup Roots : New("Panel", child)

\* the caller destroys a component it owns: ~Panel destroys the content
Delete ==
    \E root \in Roots :
        LET gone == Subtree(nodes, root)
        IN  /\ nodes' = Without(nodes, gone)
            /\ framework' = ComponentDtor(framework, {GetId(c) : c \in gone})
            /\ call' = "delete"
            /\ arg' = root
            /\ ret' = NoArg
            /\ imgui' = <<>>
            /\ UNCHANGED <<history, idleVars>>

\* Panel::SetContent: content = std::move(child) destroys the old content
SetContent ==
    \E panel \in DOMAIN nodes, child \in {0} \cup Roots :
        /\ nodes[panel].kind = "Panel"
        /\ panel \notin Subtree(nodes, child)
        /\ LET gone == Subtree(nodes, nodes[panel].content)
           IN  /\ nodes' = [Without(nodes, gone) EXCEPT ![panel].content = child]
               /\ framework' = ComponentDtor(framework, {GetId(c) : c \in gone})
        /\ call' = "SetContent"
        /\ arg' = panel
        /\ ret' = NoArg
        /\ imgui' = <<>>
        /\ UNCHANGED <<history, idleVars>>

\* component->SetTabInactive()
CallSetTabInactive ==
    \E ref \in DOMAIN nodes :
        /\ nodes' = SetTabInactiveOf(ref, nodes)
        /\ history' = [history EXCEPT !.marked = ref]
        /\ call' = "SetTabInactive"
        /\ arg' = ref
        /\ ret' = NoArg
        /\ imgui' = <<>>
        /\ UNCHANGED <<framework, idleVars>>

\* component->Update(contentRect)
CallUpdate ==
    \E ref \in DOMAIN nodes :
        /\ framework.frameComponentCount < MaxUpdates
        /\ history.updates < MaxUpdates
        /\ LET done == UpdateOf(ref, [nodes |-> nodes, framework |-> framework,
                                      imgui |-> <<>>])
           IN  /\ nodes' = done.nodes
               /\ framework' = done.framework
               /\ imgui' = done.imgui
        /\ history' = [history EXCEPT
                          !.updates = @ + Cardinality(Reached(nodes, ref))]
        /\ call' = "Update"
        /\ arg' = ref
        /\ ret' = NoArg
        /\ UNCHANGED idleVars

\* Framework::Initialize that clears the registry again when initialized
InitializeAgain(fw) ==
    [fw EXCEPT !.activeComponentIds = {}, !.frameUsedIds = {},
               !.frameComponentCount = 0, !.totalComponentsCreated = 0,
               !.initialized = TRUE]

\* Framework::Initialize that also restarts the id counter
InitializeFromZero(fw) ==
    IF fw.initialized THEN fw
    ELSE [fw EXCEPT !.activeComponentIds = {}, !.frameUsedIds = {},
                    !.frameComponentCount = 0, !.totalComponentsCreated = 0,
                    !.nextId = 0, !.initialized = TRUE]

\* Framework::Initialize
Initialize(fw) ==
    IF fw.initialized THEN fw
    ELSE [fw EXCEPT !.activeComponentIds = {}, !.frameUsedIds = {},
                    !.frameComponentCount = 0, !.totalComponentsCreated = 0,
                    !.initialized = TRUE]

\* Framework::Shutdown
Shutdown(fw) ==
    IF ~fw.initialized THEN fw
    ELSE [fw EXCEPT !.activeComponentIds = {}, !.frameUsedIds = {},
                    !.initialized = FALSE]

\* Framework::BeginFrame
BeginFrame(fw) ==
    IF ~fw.initialized THEN fw
    ELSE [fw EXCEPT !.frameUsedIds = {}, !.frameComponentCount = 0]

\* Framework::EndFrame
EndFrame(fw) == fw

\* a call of a Framework function, which returns normally
FrameworkCall(name, fw) ==
    /\ framework' = fw
    /\ call' = name
    /\ arg' = framework.initialized
    /\ ret' = "returned"
    /\ imgui' = <<>>
    /\ UNCHANGED <<nodes, idleVars>>

CallInitialize ==
    /\ FrameworkCall("Initialize", Initialize(framework))
    /\ history' = [history EXCEPT
          !.beginFrame = IF framework.initialized \/ @ = "none" THEN @
                         ELSE "reset"]

CallShutdown ==
    /\ FrameworkCall("Shutdown", Shutdown(framework))
    /\ UNCHANGED history

CallBeginFrame ==
    /\ FrameworkCall("BeginFrame", BeginFrame(framework))
    /\ history' = [history EXCEPT
          !.updates = 0,
          !.beginFrame = IF framework.initialized THEN "effective" ELSE "ignored"]

CallEndFrame ==
    /\ FrameworkCall("EndFrame", EndFrame(framework))
    /\ UNCHANGED history

InitLifecycle ==
    /\ call = "none"
    /\ arg = NoArg
    /\ ret = NoArg
    /\ rect = EmptyRectangle
    /\ other = EmptyRectangle
    /\ NoLayout
    /\ framework = Statics
    /\ imgui = <<>>
    /\ history = NoHistory

NextLifecycle ==
    \/ NewLabel
    \/ NewPanel
    \/ Delete
    \/ SetContent
    \/ CallInitialize
    \/ CallShutdown
    \/ CallBeginFrame
    \/ CallEndFrame

SpecLifecycle == InitLifecycle /\ [][NextLifecycle]_vars

(***************************************************************************)
(* Frames and Updates on a tree that has been built: d components          *)
(* constructed root first, each panel given the next one as content, and   *)
(* their public members assigned.                                          *)
(***************************************************************************)
\* the public members as the constructor leaves them, visible or not
PlainLooks ==
    { [visible |-> v, enabled |-> TRUE, allowDragDrop |-> FALSE,
       showBorder |-> FALSE] : v \in BOOLEAN }

\* with a border and drag and drop, as BasicExample sets them, and disabled
AllLooks ==
    PlainLooks
      \cup { [visible |-> v, enabled |-> e, allowDragDrop |-> TRUE,
              showBorder |-> TRUE] : v \in BOOLEAN, e \in BOOLEAN }

\* the chains of d components: d - 1 panels over a leaf
Built(d, leafKinds, looks) ==
    { [i \in 1..d |->
         [kind |-> IF i < d THEN "Panel" ELSE leaf, componentId |-> i,
          content |-> IF i < d THEN i + 1 ELSE 0,
          visible |-> look[i].visible, enabled |-> look[i].enabled,
          allowDragDrop |-> look[i].allowDragDrop,
          showBorder |-> look[i].showBorder, tabInactive |-> FALSE]] :
        leaf \in leafKinds, look \in [1..d -> looks] }

\* the statics after n constructions, following Initialize or not
StaticsAfter(n, initialized) ==
    [nextId |-> n, initialized |-> initialized, activeComponentIds |-> 1..n,
     frameUsedIds |-> {}, frameComponentCount |-> 0,
     totalComponentsCreated |-> n]

InitBuilt(leafKinds, looks) ==
    /\ call = "none"
    /\ arg = NoArg
    /\ ret = NoArg
    /\ rect = EmptyRectangle
    /\ other = EmptyRectangle
    /\ stack = <<>>
    /\ calls = <<>>
    /\ nodes \in UNION { Built(d, leafKinds, looks) : d \in 1..MaxDepth }
    /\ framework \in { StaticsAfter(Len(nodes), b) : b \in BOOLEAN }
    /\ imgui = <<>>
    /\ history = [NoHistory EXCEPT !.issued = [i \in 1..Len(nodes) |-> i]]

InitFrame == InitBuilt({"Label", "Panel"}, PlainLooks)

NextFrame ==
    \/ CallUpdate
    \/ CallInitialize
    \/ CallShutdown
    \/ CallBeginFrame
    \/ CallEndFrame

SpecFrame == InitFrame /\ [][NextFrame]_vars

InitUpdate == InitBuilt({"Label", "Panel", "Throwing"}, AllLooks)

NextUpdate == CallSetTabInactive \/ CallUpdate

SpecUpdate == InitUpdate /\ [][NextUpdate]_vars

(***************************************************************************)
(* Properties.                                                             *)
(***************************************************************************)
RECURSIVE SumWidths(_)
SumWidths(bands) ==
    IF bands = <<>> THEN 0 ELSE Head(bands).width + SumWidths(Tail(bands))

RECURSIVE SumHeights(_)
SumHeights(bands) ==
    IF bands = <<>> THEN 0 ELSE Head(bands).height + SumHeights(Tail(bands))

AllPositive(ratios) == \A i \in 1..Len(ratios) : ratios[i] > 0

\* C1: for a rectangle of extent >= 0 on the divided axis and a non-empty
\* list of positive ratios, SubdivideHorizontal (SubdivideVertical) returns
\* len(ratios) bands; the first starts at x (y), each next one starts where
\* the previous one ends, the widths (heights) sum to exactly the source's
\* width (height), and the other axis is copied unchanged.
C1_SubdivideTiles ==
    /\ (call = "SubdivideHorizontal" /\ arg # <<>> /\ AllPositive(arg)
            /\ rect.width >= 0)
         => /\ Len(ret) = Len(arg)
            /\ ret[1].x = rect.x
            /\ \A i \in 1..(Len(ret) - 1) : ret[i + 1].x = ret[i].x + ret[i].width
            /\ SumWidths(ret) = rect.width
            /\ \A i \in 1..Len(ret) : ret[i].y = rect.y /\ ret[i].height = rect.height
    /\ (call = "SubdivideVertical" /\ arg # <<>> /\ AllPositive(arg)
            /\ rect.height >= 0)
         => /\ Len(ret) = Len(arg)
            /\ ret[1].y = rect.y
            /\ \A i \in 1..(Len(ret) - 1) : ret[i + 1].y = ret[i].y + ret[i].height
            /\ SumHeights(ret) = rect.height
            /\ \A i \in 1..Len(ret) : ret[i].x = rect.x /\ ret[i].width = rect.width

\* C1 witness: a width of 5 split 1:1:1 gives truncated shares of 1 and 1, and
\* a last band of 3 that absorbs the remainder.
C1_Witness ==
    /\ call = "SubdivideHorizontal"
    /\ arg = <<1, 1, 1>> /\ rect.width = 5 /\ rect.x = 1
    /\ Len(ret) = 3
    /\ ret[1].width = 1 /\ ret[2].width = 1 /\ ret[3].width = 3
    /\ ret[3].x + ret[3].width = rect.x + rect.width

\* C3 as claimed: for every rectangle a and every empty rectangle e,
\* a.Union(e) = a and e.Union(a) = a.
C3_UnionIdentityAnyOperand ==
    call = "Union" =>
        /\ IsEmpty(other) => ret = rect
        /\ IsEmpty(rect) => ret = other

\* C3 amended: an empty receiver returns its argument unchanged
\* (e.Union(a) = a for every a, empty or not), and a non-empty receiver
\* returns itself for an empty argument (a.Union(e) = a).
C3_UnionIdentity ==
    call = "Union" =>
        /\ IsEmpty(rect) => ret = other
        /\ (~IsEmpty(rect) /\ IsEmpty(other)) => ret = rect

\* C3 witness: a non-empty rectangle united with an empty one that lies
\* outside it comes back unchanged.
C3_Witness ==
    /\ call = "Union"
    /\ ~IsEmpty(rect) /\ IsEmpty(other)
    /\ other.x > rect.x + rect.width
    /\ ret = rect

\* the unit cells (pixels) a rectangle covers
CellsOf(r) ==
    { <<px, py>> : px \in r.x..(r.x + r.width - 1),
                   py \in r.y..(r.y + r.height - 1) }

\* C4: Intersection is exactly Rectangle(0,0,0,0) when the operands share no
\* area (disjoint, touching, or one of them empty); otherwise it is the
\* overlap (max of lefts, max of tops, min of rights - left, min of bottoms -
\* top), which covers exactly the cells both cover.  (10,20,100,50) with
\* (60,30,80,40) gives (60,30,50,40).
C4_Intersection ==
    call = "Intersection" =>
        LET shared == CellsOf(rect) \cap CellsOf(other)
            left   == Max(rect.x, other.x)
            top    == Max(rect.y, other.y)
        IN  /\ IF shared = {} THEN ret = EmptyRectangle
               ELSE /\ ret = Rectangle(left, top,
                            Min(rect.x + rect.width, other.x + other.width) - left,
                            Min(rect.y + rect.height, other.y + other.height) - top)
                    /\ CellsOf(ret) = shared
            /\ (rect = Rectangle(10, 20, 100, 50) /\ other = Rectangle(60, 30, 80, 40))
                  => ret = Rectangle(60, 30, 50, 40)

\* C4 witness: two non-empty rectangles that touch along a vertical edge,
\* away from the origin, intersect in Rectangle(0,0,0,0).
C4_Witness ==
    /\ call = "Intersection"
    /\ ~IsEmpty(rect) /\ ~IsEmpty(other)
    /\ other.x = rect.x + rect.width
    /\ Max(rect.y, other.y) < Min(rect.y + rect.height, other.y + other.height)
    /\ ret = EmptyRectangle

\* r is no wider and no taller than bounds
FitsIn(r, bounds) == r.width <= bounds.width /\ r.height <= bounds.height

\* C5 as claimed: ClampTo returns the width and height it was given, also for
\* a rectangle wider or taller than the bounds, and clamps x and y into the
\* bounds when the rectangle is no larger than them.
C5_ClampToKeepsSize ==
    call = "ClampTo" =>
        /\ ret.width = rect.width
        /\ ret.height = rect.height
        /\ FitsIn(rect, other) =>
              /\ other.x <= ret.x /\ ret.x <= other.x + other.width - rect.width
              /\ other.y <= ret.y /\ ret.y <= other.y + other.height - rect.height

\* C5 amended: ClampTo returns width min(r.width, b.width) and height
\* min(r.height, b.height); when r is no larger than b the size is therefore
\* kept and x and y are clamped into [b.x, b.x + b.width - r.width] and
\* [b.y, b.y + b.height - r.height].
C5_ClampTo ==
    call = "ClampTo" =>
        /\ ret.width = Min(rect.width, other.width)
        /\ ret.height = Min(rect.height, other.height)
        /\ FitsIn(rect, other) =>
              /\ ret.width = rect.width /\ ret.height = rect.height
              /\ other.x <= ret.x /\ ret.x <= other.x + other.width - rect.width
              /\ other.y <= ret.y /\ ret.y <= other.y + other.height - rect.height

\* C5 witness: the call of RectangleDemo.cpp, a 100x60 rectangle clamped to
\* 80x40 bounds, comes back 80x40.
C5_Witness ==
    /\ call = "ClampTo"
    /\ rect = Rectangle(50, 50, 100, 60) /\ other = Rectangle(0, 0, 80, 40)
    /\ ret.width = 80 /\ ret.height = 40

\* C7: Contains(px, py) holds exactly for x <= px < x + width and
\* y <= py < y + height, so no point is contained in both of two rectangles
\* that do not intersect (in particular two that share a border);
\* (50,50,100,100) contains (50,50) and not (150,150).
C7_ContainsHalfOpen ==
    call = "Contains" =>
        /\ ret.inThis <=> /\ arg[1] \in rect.x..(rect.x + rect.width - 1)
                          /\ arg[2] \in rect.y..(rect.y + rect.height - 1)
        /\ ~ret.intersects => ~(ret.inThis /\ ret.inOther)
        /\ (rect = Rectangle(50, 50, 100, 100) /\ arg = <<50, 50>>) => ret.inThis
        /\ (rect = Rectangle(50, 50, 100, 100) /\ arg = <<150, 150>>) => ~ret.inThis

\* C7 witness: a point on the border two adjacent rectangles share is
\* claimed by the right-hand one only.
C7_Witness ==
    /\ call = "Contains"
    /\ ~IsEmpty(rect) /\ ~IsEmpty(other)
    /\ other.x = rect.x + rect.width
    /\ arg[1] = other.x
    /\ ret.inOther /\ ~ret.inThis /\ ~ret.intersects

\* C10: for non-empty r and c, r.FitInside(c, true) has the width of c and
\* at most its height, or the height of c and at most its width; it is
\* centred (x = c.x + (c.width - width)/2, y likewise) and so lies inside c.
C10_FitInsideAspect ==
    (call = "FitInside" /\ arg = TRUE /\ ~IsEmpty(rect) /\ ~IsEmpty(other)) =>
        /\ \/ ret.width = other.width /\ ret.height <= other.height
           \/ ret.height = other.height /\ ret.width <= other.width
        /\ ret.x = other.x + CDiv(other.width - ret.width, 2)
        /\ ret.y = other.y + CDiv(other.height - ret.height, 2)
        /\ other.x <= ret.x /\ ret.x + ret.width <= other.x + other.width
        /\ other.y <= ret.y /\ ret.y + ret.height <= other.y + other.height
        /\ ret.width >= 0 /\ ret.height >= 0

\* C10 witness: a rectangle narrower in proportion than its container takes
\* the container's height and a smaller width, and is centred with a margin.
C10_Witness ==
    /\ call = "FitInside" /\ arg = TRUE
    /\ ~IsEmpty(rect) /\ ~IsEmpty(other)
    /\ ret.height = other.height
    /\ ret.width > 0 /\ ret.width < other.width
    /\ ret.x > other.x

\* floor(f * maxValue * correction) in exact arithmetic, f = num/den clamped
\* to [0, 1] and correction = lc[1]/lc[2]
ExactRelative(f, maxValue, lc) ==
    LET num == IF f[1] < 0 THEN 0 ELSE IF f[1] > f[2] THEN f[2] ELSE f[1]
    IN  (num * maxValue * lc[1]) \div (f[2] * lc[2])

\* the policies the components are given, by pixels and by fraction
AbsolutePolicies == [v \in AbsolutePixels |-> Absolute(v)]
RelativePolicies == [f \in RelativeFractions |-> Relative(f[1], f[2])]

\* the parent extent GetWidth (GetHeight) resolves against
MaxValueOf(id) ==
    IF call = "GetWidth" THEN ArgsOf(id).parentWidth ELSE ArgsOf(id).parentHeight

\* C2: a policy that is not Content resolves to min(v, available) for
\* Absolute(v) and to floor(f * available * correction) for Relative(f);
\* Size(Relative(0.5), Relative(0.5)) in a 400x300 parent resolves through
\* GetWidth/GetHeight to 200x150.
C2_GetDimension ==
    /\ \A id \in DOMAIN nodes :
          (ret[id] # <<>> /\ calls[id] # <<>> /\ ~IsContentAligned(PolicyOnAxis(id))) =>
              /\ PolicyOnAxis(id) \in
                    {AbsolutePolicies[v] : v \in AbsolutePixels}
                       \cup {RelativePolicies[f] : f \in RelativeFractions}
              /\ \A v \in AbsolutePixels :
                    PolicyOnAxis(id) = AbsolutePolicies[v] =>
                        ret[id] = <<Min(v, MaxValueOf(id))>>
              /\ \A f \in RelativeFractions :
                    PolicyOnAxis(id) = RelativePolicies[f] =>
                        ret[id] = <<ExactRelative(f, MaxValueOf(id),
                                                  ArgsOf(id).layoutCorrection)>>
    /\ (/\ Returned
        /\ nodes[Root].size = Size(Relative(1, 2), Relative(1, 2))
        /\ arg = [parentWidth |-> 400, parentHeight |-> 300,
                  layoutCorrection |-> <<1, 1>>])
          => ret[Root] = IF call = "GetWidth" THEN <<200>> ELSE <<150>>

\* C2 witness: three quarters of a width of 7 under a correction of 3/2,
\* 7.875, resolves to 7.
C2_Witness ==
    /\ Returned /\ call = "GetWidth"
    /\ nodes[Root].size.width = Relative(3, 4)
    /\ arg.parentWidth = 7 /\ arg.layoutCorrection = <<3, 2>>
    /\ ret[Root] = <<7>>

\* C6: GetWidth/GetHeight on the root of a finite tree terminates: a call in
\* progress can always take its next step, no component is called twice (each
\* parent-child edge is descended at most once), the active calls run down the
\* chain from the root, and every call gets the arguments the root was given.
C6_ResolutionTerminates ==
    /\ \A id \in DOMAIN nodes :
          /\ Len(calls[id]) <= 1
          /\ \A i \in 1..Len(calls[id]) : calls[id][i] = arg
    /\ \A i \in 1..Len(stack) :
          stack[i] = IF i = 1 THEN Root ELSE nodes[stack[i - 1]].content
    /\ stack # <<>> =>
          \/ Running /\ ~IsContentAligned(PolicyOnAxis(Top))   \* ResolveDimension
          \/ ENABLED (MeasureLabel \/ MeasureEmptyPanel \/ MeasureContent \/ Return)
    /\ call # "none" => (Returned <=> ret[Root] # <<>> /\ stack = <<>>)
    /\ (call # "none" /\ stack = <<>>) => ret[Root] # <<>>

\* C6 witness: a chain of Content panels ending in a Content label has
\* returned, each component called exactly once.
C6_Witness ==
    /\ Returned
    /\ Len(nodes) >= 2
    /\ nodes[Len(nodes)].kind = "Label"
    /\ \A id \in DOMAIN nodes :
          IsContentAligned(PolicyOnAxis(id)) /\ Len(calls[id]) = 1 /\ ret[id] # <<>>

ContentLabel(id) ==
    /\ nodes[id].kind = "Label"
    /\ IsContentAligned(nodes[id].size.width)
    /\ IsContentAligned(nodes[id].size.height)

\* the text extent measured without reference to a parent; 0x0 for no text
TextExtent(text) ==
    IF TextEmpty(text) THEN [x |-> 0, y |-> 0] ELSE CalcTextSize(text, NoWrap)

RECURSIVE LongestLine(_)
LongestLine(text) ==
    IF text = <<>> THEN 0 ELSE Max(Head(text), LongestLine(Tail(text)))

C9_ContentMeasure ==
    \A id \in DOMAIN nodes :
        (ret[id] # <<>> /\ calls[id] # <<>> /\ IsContentAligned(PolicyOnAxis(id))) =>
            /\ (nodes[id].kind = "Panel" /\ nodes[id].content = 0) => ret[id] = <<0>>
            /\ (nodes[id].kind = "Panel" /\ nodes[id].content # 0) =>
                  /\ ret[id] = ret[nodes[id].content]
                  /\ calls[nodes[id].content] = <<ArgsOf(id)>>
            /\ (nodes[id].kind = "Label" /\ TextEmpty(nodes[id].text)) =>
                  ret[id] = <<0>>

\* C9 witness: a Content panel over an empty Content panel has returned 0,
\* the value its child returned.
C9_Witness ==
    /\ Returned
    /\ Len(nodes) = 2
    /\ nodes[2].kind = "Panel" /\ nodes[2].content = 0
    /\ IsContentAligned(PolicyOnAxis(1)) /\ IsContentAligned(PolicyOnAxis(2))
    /\ ret[2] = <<0>> /\ ret[1] = <<0>>

\* C11 as claimed: without the aspect ratio maintained FitInside returns the
\* container, for every rectangle and every container.
C11_FitInsideStretchAny ==
    (call = "FitInside" /\ arg = FALSE) => ret = other

\* C11 amended: without the aspect ratio maintained FitInside returns the
\* container exactly when the rectangle and the container are both non-empty,
\* and Rectangle(0,0,0,0) when either is empty.
C11_FitInsideStretch ==
    (call = "FitInside" /\ arg = FALSE) =>
        ret = IF rect.width <= 0 \/ rect.height <= 0
                 \/ other.width <= 0 \/ other.height <= 0
              THEN Rectangle(0, 0, 0, 0)
              ELSE other

\* C11 witness: (50,50,100,60) stretched into (0,0,400,300) is (0,0,400,300).
C11_Witness ==
    /\ call = "FitInside" /\ arg = FALSE
    /\ rect = Rectangle(50, 50, 100, 60)
    /\ other = Rectangle(0, 0, 400, 300)
    /\ ret = Rectangle(0, 0, 400, 300)

\* C12: scaling keeps the pivot fixed: the centre of r.Scale(s) is the centre
\* of r; for r.Scale(sx, sy, origin) the result has
\* result.x - origin.x = (r.x - origin.x) * sx and result.width = r.width * sx,
\* likewise on y with sy; Scale(1) returns r unchanged.
C12_ScaleKeepsPivot ==
    /\ call = "ScaleAroundCenter" =>
          /\ Center(ret) = Center(rect)
          /\ arg.scale = <<1, 1>> => ret = rect
    /\ call = "Scale" =>
          LET sx == arg.scaleX
              sy == arg.scaleY
          IN  /\ (ret.x - arg.origin[1]) * sx[2] = (rect.x - arg.origin[1]) * sx[1]
              /\ ret.width * sx[2] = rect.width * sx[1]
              /\ (ret.y - arg.origin[2]) * sy[2] = (rect.y - arg.origin[2]) * sy[1]
              /\ ret.height * sy[2] = rect.height * sy[1]

\* C12 witness: (0,0,3,3).Scale(2) is (-1,-1,6,6), whose centre is (2,2), not (1,1).
C12_Witness ==
    /\ call = "ScaleAroundCenter" /\ arg.scale = <<2, 1>>
    /\ rect = Rectangle(0, 0, 3, 3)
    /\ ret = Rectangle(-1, -1, 6, 6)
    /\ Center(rect) = ImVec2(ToFloat(1), ToFloat(1))
    /\ Center(ret) = ImVec2(ToFloat(2), ToFloat(2))

\* the claims of C13 about the cells of a grid, but for their lying inside
\* the source rectangle
GridRegular(cells) ==
    /\ \A p \in DOMAIN cells :
          /\ cells[p].width = cells[<<0, 0>>].width
          /\ cells[p].height = cells[<<0, 0>>].height
          /\ <<p[1], p[2] + 1>> \in DOMAIN cells =>
                cells[<<p[1], p[2] + 1>>].x = cells[p].x + cells[p].width + arg.spacing
          /\ <<p[1] + 1, p[2]>> \in DOMAIN cells =>
                cells[<<p[1] + 1, p[2]>>].y = cells[p].y + cells[p].height + arg.spacing
    /\ cells[<<0, 0>>].x = rect.x /\ cells[<<0, 0>>].y = rect.y
    /\ \A p, q \in DOMAIN cells : p # q => ~Intersects(cells[p], cells[q])

GridCase ==
    call = "CreateGridCells" /\ arg.rows >= 1 /\ arg.cols >= 1 /\ arg.spacing >= 0

\* C13 as claimed: for rows >= 1, cols >= 1, spacing >= 0 the cells have one
\* size, are spaced by exactly spacing from cell (0,0) at the source's
\* top-left corner, do not intersect, and each lies inside the source.
C13_GridCellsInsideAny ==
    GridCase =>
        /\ GridRegular(ret)
        /\ \A p \in DOMAIN ret : ContainsRectangle(rect, ret[p])

\* C13 amended: the cells have one size, are spaced by exactly spacing from
\* cell (0,0) at the source's top-left corner and do not intersect; each lies
\* inside the source when the source is at least as wide as spacing * (cols-1)
\* and as high as spacing * (rows-1).
C13_GridCells ==
    GridCase =>
        /\ GridRegular(ret)
        /\ (rect.width >= arg.spacing * (arg.cols - 1)
              /\ rect.height >= arg.spacing * (arg.rows - 1))
             => \A p \in DOMAIN ret :
                   /\ rect.x <= ret[p].x /\ ret[p].x + ret[p].width <= rect.x + rect.width
                   /\ rect.y <= ret[p].y /\ ret[p].y + ret[p].height <= rect.y + rect.height

\* C13 witness: the 3x3 grid of (0,0,400,300) with spacing 5 has cells of
\* 130x96, the last at (270,202).
C13_Witness ==
    /\ call = "CreateGridCells"
    /\ rect = Rectangle(0, 0, 400, 300)
    /\ arg.rows = 3 /\ arg.cols = 3 /\ arg.spacing = 5
    /\ ret[<<0, 0>>] = Rectangle(0, 0, 130, 96)
    /\ ret[<<2, 2>>] = Rectangle(270, 202, 130, 96)

\* C14: degenerate inputs yield an empty result: CreateGrid with rows <= 0,
\* cols <= 0 or (row, col) out of range returns Rectangle(0,0,0,0);
\* SubdivideHorizontal/SubdivideVertical with no ratios or ratios summing to
\* <= 0 return an empty list; ArrangeInGrid/ArrangeInLine with itemCount <= 0
\* return an empty list; CalculateBoundingBox of an empty list returns
\* Rectangle(0,0,0,0).
C14_DegenerateInputs ==
    /\ (call = "CreateGrid"
          /\ (arg.rows <= 0 \/ arg.cols <= 0 \/ arg.row < 0 \/ arg.row >= arg.rows
                \/ arg.col < 0 \/ arg.col >= arg.cols))
          => ret = Rectangle(0, 0, 0, 0)
    /\ (call \in {"SubdivideHorizontal", "SubdivideVertical"}
          /\ (Len(arg.ratios) = 0 \/ SumRatios(arg.ratios) <= 0))
          => ret = <<>>
    /\ (call \in {"ArrangeInGrid", "ArrangeInLine"} /\ arg.itemCount <= 0)
          => ret = <<>>
    /\ (call = "CalculateBoundingBox" /\ Len(arg.rectangles) = 0)
          => ret = Rectangle(0, 0, 0, 0)
    \* and what is not degenerate is answered with as many items as asked for
    /\ (call \in {"ArrangeInGrid", "ArrangeInLine"} /\ arg.itemCount > 0)
          => Len(ret) = arg.itemCount
    /\ (call \in {"SubdivideHorizontal", "SubdivideVertical"}
          /\ Len(arg.ratios) > 0 /\ SumRatios(arg.ratios) > 0)
          => Len(ret) = Len(arg.ratios)

\* C14 witness: ArrangeInLine asked for -1 items in a non-empty container
\* returned no item.
C14_Witness ==
    /\ call = "ArrangeInLine" /\ arg.itemCount = -1
    /\ rect.width > 0 /\ rect.height > 0
    /\ ret = <<>>

\* C15: every Rectangle operation is total: it returns a value without
\* calling a primitive outside its precondition; ClampTo calls std::clamp
\* with low <= high and runs to its return for every rectangle and bounds.
C15_OperationsTotal ==
    /\ call # "ClampTo:abort"
    /\ call = "ClampTo" =>
          /\ StdClampDefined(other.x, other.x + other.width - rect.width)
          /\ StdClampDefined(other.y, other.y + other.height - rect.height)

\* C15 witness: (50,50,100,60).ClampTo((0,0,80,40)), the call of
\* RectangleDemo.cpp, passes std::clamp the bounds 0 and -20 and is stopped
\* by a standard library that asserts the precondition.
C15_Witness ==
    /\ call = "ClampTo:abort"
    /\ rect = Rectangle(50, 50, 100, 60)
    /\ other = Rectangle(0, 0, 80, 40)
    /\ other.x + other.width - rect.width = -20
    /\ ~StdClampDefined(other.x, other.x + other.width - rect.width)

\* the least rectangle with both operands inside: left and top edges the
\* lesser ones, right and bottom edges the greater ones
BoundsBoth(u, a, b) ==
    /\ u.x <= a.x /\ u.x <= b.x /\ u.x \in {a.x, b.x}
    /\ u.y <= a.y /\ u.y <= b.y /\ u.y \in {a.y, b.y}
    /\ u.x + u.width >= a.x + a.width /\ u.x + u.width >= b.x + b.width
    /\ u.x + u.width \in {a.x + a.width, b.x + b.width}
    /\ u.y + u.height >= a.y + a.height /\ u.y + u.height >= b.y + b.height
    /\ u.y + u.height \in {a.y + a.height, b.y + b.height}

UnionOfNonEmpty ==
    (call = "Union" /\ rect.width > 0 /\ rect.height > 0
        /\ other.width > 0 /\ other.height > 0) => BoundsBoth(ret, rect, other)

\* C16 as claimed: (10,20,100,50).Union((60,30,80,40)) is (10,20,130,60), and
\* the Union of two non-empty rectangles is their minimal bounding rectangle.
C16_UnionDemoHeight60 ==
    /\ UnionOfNonEmpty
    /\ (call = "Union" /\ rect = Rectangle(10, 20, 100, 50)
          /\ other = Rectangle(60, 30, 80, 40)) => ret = Rectangle(10, 20, 130, 60)

\* C16 amended: (10,20,100,50).Union((60,30,80,40)) is (10,20,130,50) (both
\* bottoms are at 70), and the Union of two non-empty rectangles is their
\* minimal bounding rectangle.
C16_UnionBounds ==
    /\ UnionOfNonEmpty
    /\ (call = "Union" /\ rect = Rectangle(10, 20, 100, 50)
          /\ other = Rectangle(60, 30, 80, 40)) => ret = Rectangle(10, 20, 130, 50)

\* C16 witness: the Union of the two rectangles of RectangleDemo.cpp.
C16_Witness ==
    /\ call = "Union"
    /\ rect = Rectangle(10, 20, 100, 50) /\ other = Rectangle(60, 30, 80, 40)
    /\ ret = Rectangle(10, 20, 130, 50)

\* floor(extent * ratio / sum(ratios)), in integers
Share(extent, ratios, i) == (extent * ratios[i]) \div SumRatios(ratios)

\* C17: subdivision is proportional to the normalized ratios: every band but
\* the last has extent floor(axisExtent * ratio_i / sum(ratios)) and the last
\* takes the remainder; (0,0,400,300) split horizontally 1:2:1 gives widths
\* 100, 200, 100 at x = 0, 100, 300, each with y = 0 and height 300.  Stated
\* here for positive ratios and a non-negative extent only.
C17_SubdivideProportional ==
    /\ (call = "SubdivideHorizontal" /\ arg # <<>> /\ AllPositive(arg)
            /\ rect.width >= 0)
         => /\ \A i \in 1..(Len(arg) - 1) : ret[i].width = Share(rect.width, arg, i)
            /\ ret[Len(arg)].width = rect.x + rect.width - ret[Len(arg)].x
    /\ (call = "SubdivideVertical" /\ arg # <<>> /\ AllPositive(arg)
            /\ rect.height >= 0)
         => /\ \A i \in 1..(Len(arg) - 1) : ret[i].height = Share(rect.height, arg, i)
            /\ ret[Len(arg)].height = rect.y + rect.height - ret[Len(arg)].y
    /\ (call = "SubdivideHorizontal" /\ rect = Rectangle(0, 0, 400, 300)
            /\ arg = <<1, 2, 1>>)
         => ret = <<Rectangle(0, 0, 100, 300), Rectangle(100, 0, 200, 300),
                    Rectangle(300, 0, 100, 300)>>

\* C17 witness: a width of 108 split 7:5 gives bands of 62 and 46, where
\* floor(108 * 7 / 12) is 63.
C17_Witness ==
    /\ call = "SubdivideHorizontal"
    /\ rect = Rectangle(3, 5, 108, 216) /\ arg = <<7, 5>>
    /\ Share(rect.width, arg, 1) = 63
    /\ ret = <<Rectangle(3, 5, 62, 216), Rectangle(65, 5, 46, 216)>>

\* C18: both factory methods return a rectangle with width >= 0 and
\* height >= 0: FromTwoPoints for any two points in either order, with
\* FromTwoPoints(p, q) = FromTwoPoints(q, p), and FromCenter for any centre
\* and any width and height.
C18_FactoriesNormalized ==
    /\ call = "FromTwoPoints" =>
          /\ ret.width >= 0 /\ ret.height >= 0
          /\ ret = FromTwoPoints(PointOf(arg.point2), PointOf(arg.point1))
    /\ call = "FromCenter" => (ret.width >= 0 /\ ret.height >= 0)

\* C18 witness: FromCenter((0,0), -2, 2) is (1,-1,-2,2), of width -2.
C18_Witness ==
    /\ call = "FromCenter"
    /\ arg.center = <<<<0, 1>>, <<0, 1>>>> /\ arg.width = -2 /\ arg.height = 2
    /\ ret = Rectangle(1, -1, -2, 2)

\* C19: ContainsRectangle is antisymmetric (a contains b and b contains a
\* only if a = b) and reflexive (a contains a), containment being on closed
\* bounds: b is in a exactly when none of b's four edges lies outside a's.
C19_ContainsRectangleOrder ==
    call = "ContainsRectangle" =>
        /\ (ret.thisContainsOther /\ ret.otherContainsThis) => rect = other
        /\ ret.thisContainsThis
        /\ ret.thisContainsOther <=>
              ~(\/ other.x < rect.x
                \/ other.y < rect.y
                \/ other.x + other.width > rect.x + rect.width
                \/ other.y + other.height > rect.y + rect.height)

\* C19 witness: of two different rectangles one contains the other, sharing
\* its left and top edges, and is not contained in it.
C19_Witness ==
    /\ call = "ContainsRectangle"
    /\ rect # other /\ rect.x = other.x /\ rect.y = other.y
    /\ other.width > 0 /\ other.height > 0
    /\ ret.thisContainsOther /\ ~ret.otherContainsThis /\ ret.thisContainsThis

\* the float f is width/height rounded to nearest: f has the sign of the
\* quotient and |f| * |height| is within half a unit in the last place of
\* |width| (f.e is negative for the quotients here)
NearestQuotient(f, width, height) ==
    IF width = 0 THEN f.m = 0
    ELSE /\ f.m # 0 /\ f.e < 0
         /\ f.s = (IF (width > 0) = (height > 0) THEN 1 ELSE -1)
         /\ 2 * Abs(f.m * Abs(height) - Abs(width) * (2 ^ (-f.e))) <= Abs(height)

\* C20: AspectRatio returns 0 for every rectangle of height 0 (e.g.
\* (0,0,100,0)) and width/height otherwise (1 for 100x100, 4 for 200x50).
C20_AspectRatio ==
    call = "AspectRatio" =>
        /\ rect.height = 0 => ret = [s |-> 1, m |-> 0, e |-> 0]
        /\ rect.height # 0 => NearestQuotient(ret, rect.width, rect.height)
        /\ (rect.width = 100 /\ rect.height = 100) => ret = ToFloat(1)
        /\ (rect.width = 200 /\ rect.height = 50) => ret = ToFloat(4)

\* C20 witness: the aspect ratio of (0,0,100,0) is 0.
C20_Witness ==
    /\ call = "AspectRatio"
    /\ rect = Rectangle(0, 0, 100, 0)
    /\ ret.m = 0

\* a <= b in binary32
FLessEq(a, b) == ~FLess(b, a)

\* C21: every SizeValue constructed through the public interface has
\* 0 <= value <= 1 when relative and value >= -1 when absolute.
C21_SizeValueClamped ==
    call # "none" =>
        /\ ret.isRelative =>
               FLessEq(FZero, ret.value) /\ FLessEq(ret.value, FOne)
        /\ ~ret.isRelative => FLessEq(ToFloat(-1), ret.value)

\* C21 witness: SizeValue(2.0f, true) is relative with value 2.
C21_Witness ==
    /\ call = "SizeValue(float,bool)"
    /\ arg.val = <<2, 1>> /\ arg.relative
    /\ ret = [value |-> ToFloat(2), isRelative |-> TRUE]

\* the clamping factories and the converting constructors keep the ranges
C21_FactoriesClamp ==
    call \in {"SizeValue()", "Content", "Parent", "Absolute", "Relative",
              "SizeValue(int)", "SizeValue(float)"} =>
        /\ ret.isRelative =>
               FLessEq(FZero, ret.value) /\ FLessEq(ret.value, FOne)
        /\ ~ret.isRelative => FLessEq(ToFloat(-1), ret.value)

\* C24: a.Intersects(b) is true exactly when a.Intersection(b) is not empty;
\* in particular Intersects is false when either operand is empty.
C24_IntersectsAgrees ==
    call = "BothWays" =>
        /\ ret.intersects <=> ~IsEmpty(ret.intersection)
        /\ (IsEmpty(rect) \/ IsEmpty(other)) => ~ret.intersects

\* C24 witness: Rectangle(1,1,0,0).Intersects(Rectangle(0,0,2,2)) is true
\* and their Intersection is empty.
C24_Witness ==
    /\ call = "BothWays"
    /\ rect = Rectangle(1, 1, 0, 0) /\ other = Rectangle(0, 0, 2, 2)
    /\ ret.intersects
    /\ IsEmpty(ret.intersection)

\* for non-empty operands Intersects and Intersection agree
C24_AgreeOnNonEmpty ==
    (call = "BothWays" /\ ~IsEmpty(rect) /\ ~IsEmpty(other)) =>
        (ret.intersects <=> ~IsEmpty(ret.intersection))

\* C25 as stated: Union and Intersection give the same result both ways
\* for all rectangles, two empty ones included.
C25_CommutativeAnyOperands ==
    call = "BothWays" =>
        /\ ret.union = ret.unionSwapped
        /\ ret.intersection = ret.intersectionSwapped

\* C25: Intersection gives the same result both ways for all rectangles;
\* Union does unless both operands are empty, and then a.Union(b) is b and
\* b.Union(a) is a.
C25_Commutative ==
    call = "BothWays" =>
        /\ ret.intersection = ret.intersectionSwapped
        /\ ~(IsEmpty(rect) /\ IsEmpty(other)) => ret.union = ret.unionSwapped
        /\ (IsEmpty(rect) /\ IsEmpty(other)) =>
               ret.union = other /\ ret.unionSwapped = rect

\* C25 witness: two overlapping rectangles with the same union and the same
\* non-empty intersection both ways.
C25_Witness ==
    /\ call = "BothWays"
    /\ rect # other
    /\ ~IsEmpty(ret.intersection)
    /\ ret.intersection = ret.intersectionSwapped
    /\ ret.union = ret.unionSwapped

\* band lies inside the source rectangle r
BandInside(band, r) ==
    /\ r.x <= band.x /\ band.x + band.width <= r.x + r.width
    /\ r.y <= band.y /\ band.y + band.height <= r.y + r.height

\* C26: for an accepted ratio list (non-empty, sum > 0, single ratios of
\* any sign) and a source of non-negative extents, every band returned by
\* SubdivideHorizontal (SubdivideVertical) has a non-negative width (height)
\* and lies inside the source.
C26_BandsInside ==
    (/\ call \in {"SubdivideHorizontal", "SubdivideVertical"}
     /\ arg # <<>> /\ SumRatios(arg) > 0
     /\ rect.width >= 0 /\ rect.height >= 0)
        => \A i \in 1..Len(ret) :
              /\ call = "SubdivideHorizontal" => ret[i].width >= 0
              /\ call = "SubdivideVertical" => ret[i].height >= 0
              /\ BandInside(ret[i], rect)

\* C26 witness: (0,0,4,4) split 2 : -1 gives a first band of width 8 and a
\* last band of width -4.
C26_Witness ==
    /\ call = "SubdivideHorizontal"
    /\ rect = Rectangle(0, 0, 4, 4) /\ arg = <<2, -1>>
    /\ ret = <<Rectangle(0, 0, 8, 4), Rectangle(8, 0, -4, 4)>>

\* with no negative ratio in the list the bands are inside the source
C26_BandsInsideNonNegative ==
    (/\ call \in {"SubdivideHorizontal", "SubdivideVertical"}
     /\ arg # <<>> /\ SumRatios(arg) > 0
     /\ \A i \in 1..Len(arg) : arg[i] >= 0
     /\ rect.width >= 0 /\ rect.height >= 0)
        => \A i \in 1..Len(ret) :
              /\ ret[i].width >= 0 /\ ret[i].height >= 0
              /\ BandInside(ret[i], rect)

\* C22: Initialize while initialized, and Shutdown, BeginFrame or EndFrame
\* while not initialized, return and leave the initialized flag, the
\* active-ID set, the frame-used set and the frame and total counters as
\* they were; a later correct call still takes effect.
C22_MisuseAbsorbed ==
    [][ /\ (CallInitialize /\ framework.initialized)
            => framework' = framework /\ ret' = "returned"
        /\ ((CallShutdown \/ CallBeginFrame \/ CallEndFrame)
              /\ ~framework.initialized)
            => framework' = framework /\ ret' = "returned"
        /\ (CallInitialize /\ ~framework.initialized) => framework'.initialized
        /\ (CallShutdown /\ framework.initialized) => ~framework'.initialized
        /\ (CallBeginFrame /\ framework.initialized)
            => /\ framework'.frameComponentCount = 0
               /\ framework'.frameUsedIds = {}
               /\ framework'.initialized ]_vars

\* C22 witness: Initialize has returned on an initialized framework whose
\* registry and frame counters were not empty, and they are as before.
C22_Witness ==
    /\ call = "Initialize" /\ arg = TRUE /\ ret = "returned"
    /\ framework.initialized
    /\ framework.activeComponentIds # {}
    /\ framework.frameUsedIds # {}
    /\ framework.frameComponentCount > 0

\* C23: each component constructed gets an id greater than every id issued
\* before it, so no id is issued twice, also not after a destruction or
\* after Shutdown and Initialize; GetId of a live component is the id it
\* was constructed with.
C23_IdsMonotonic ==
    /\ \A i, j \in 1..Len(history.issued) :
          i < j => history.issued[i] < history.issued[j]
    /\ \A ref \in DOMAIN nodes : GetId(ref) = history.issued[ref]
    /\ \A a, b \in DOMAIN nodes : a # b => GetId(a) # GetId(b)

\* C23 witness: a component constructed after another one was destroyed and
\* after Shutdown and Initialize has a new, greater id.
C23_Witness ==
    /\ call = "new"
    /\ Len(history.issued) = MaxComponents
    /\ 1 \notin DOMAIN nodes
    /\ framework.initialized
    /\ framework.totalComponentsCreated = 1
    /\ GetId(arg) = MaxComponents

\* C27: SetTabInactive on a component marks it and every descendant, and
\* when the next Update on that component has returned no component of its
\* subtree is marked, whatever the visible flags.
C27_TabInactiveOneUpdate ==
    /\ call = "SetTabInactive"
         => \A c \in Subtree(nodes, arg) : IsTabInactive(c)
    /\ (call = "Update" /\ arg = history.marked)
         => \A c \in Subtree(nodes, arg) : ~IsTabInactive(c)

\* C27 witness: a visible panel with an invisible child was marked and then
\* updated; the child is still marked.
C27_Witness ==
    /\ call = "Update" /\ arg = 1 /\ history.marked = 1
    /\ nodes[1].visible /\ nodes[1].content = 2
    /\ ~nodes[2].visible
    /\ ~IsTabInactive(1)
    /\ IsTabInactive(2)

\* the mark is set on the whole subtree, and Update clears it on the
\* component itself and on the visible components it reaches
C27_ClearedWhereReached ==
    /\ call = "SetTabInactive"
         => \A c \in Subtree(nodes, arg) : IsTabInactive(c)
    /\ (call = "Update" /\ arg = history.marked)
         => \A c \in {arg} \cup Reached(nodes, arg) : ~IsTabInactive(c)

\* how many times the Update that ran last made the call what for ref
Made(what, ref) ==
    Cardinality({ i \in 1..Len(imgui) : imgui[i] = <<what, ref>> })

\* C30: an Update of a visible component makes one PushID and one PopID,
\* and every ApplyStyles is followed by one RemoveStyles, also when
\* UpdateInternal throws; an Update of an invisible component makes no
\* renderer call at all.
C30_ScopesBalanced ==
    call = "Update" =>
        /\ nodes[arg].visible
             => Made("PushID", arg) = 1 /\ Made("PopID", arg) = 1
        /\ \A c \in DOMAIN nodes :
              /\ Made("PushID", c) = Made("PopID", c)
              /\ Made("ApplyStyles", c) = Made("RemoveStyles", c)
        /\ ~nodes[arg].visible => imgui = <<>>

\* C30 witness: the Update of a visible component whose UpdateInternal
\* throws applied the styles and never removed them.
C30_Witness ==
    /\ call = "Update" /\ arg = 1
    /\ nodes[1].kind = "Throwing" /\ nodes[1].visible
    /\ imgui = << <<"PushID", 1>>, <<"ApplyStyles", 1>>,
                  <<"UpdateInternal", 1>>, <<"PopID", 1>> >>

\* PushID and PopID are balanced on every path, an invisible component
\* makes no renderer call, and the styles are removed where UpdateInternal
\* returns
C30_IdScopesBalanced ==
    call = "Update" =>
        /\ nodes[arg].visible
             => Made("PushID", arg) = 1 /\ Made("PopID", arg) = 1
        /\ \A c \in DOMAIN nodes :
              /\ Made("PushID", c) = Made("PopID", c)
              /\ nodes[c].kind # "Throwing"
                   => Made("ApplyStyles", c) = Made("RemoveStyles", c)
        /\ ~nodes[arg].visible => imgui = <<>>

\* C28: after any sequence of constructions, destructions, SetContent
\* replacements and Framework calls, GetStatistics().activeComponents is the
\* number of live components and ValidateHierarchy() is true for each.
C28_RegistryMatchesLive ==
    /\ GetStatistics.activeComponents = Cardinality(DOMAIN nodes)
    /\ \A ref \in DOMAIN nodes : ValidateHierarchy(ref)

\* C28 witness: Initialize on an uninitialized framework has emptied the
\* registry while a component constructed before it is alive.
C28_Witness ==
    /\ call = "Initialize" /\ arg = FALSE
    /\ 1 \in DOMAIN nodes
    /\ GetStatistics.activeComponents = 0
    /\ ~ValidateHierarchy(1)

\* the registry never holds the id of a destroyed component
C28_RegistryWithinLive ==
    framework.activeComponentIds \subseteq { GetId(ref) : ref \in DOMAIN nodes }

\* C29 as stated: at any point after a BeginFrame call, frameComponentCount
\* is the number of Updates of visible components since the most recent
\* BeginFrame call, whatever the order of the calls.
C29_FrameCountAnyOrder ==
    history.beginFrame # "none"
        => GetStatistics.frameComponentCount = history.updates

\* C29: frameComponentCount is the number of Updates of visible components
\* since the most recent BeginFrame call, provided the framework was
\* initialized at that call and no Initialize has taken effect since.
C29_FrameCount ==
    history.beginFrame = "effective"
        => GetStatistics.frameComponentCount = history.updates

\* C29 witness: two Updates counted in a frame, with an invisible component
\* in the tree that was not counted.
C29_Witness ==
    /\ call = "Update"
    /\ history.beginFrame = "effective"
    /\ history.updates = 2
    /\ GetStatistics.frameComponentCount = 2
    /\ \E c \in DOMAIN nodes : ~nodes[c].visible
====
